---------------------------- MODULE Spec2Model ----------------------------
(***************************************************************************)
(* Quantitative backtesting subsystem of stock_agent: strategy catalog,    *)
(* vectorized simulation engine, performance analytics and run             *)
(* persistence (src/backtest/*.py).                                        *)
(*                                                                         *)
(* Numbers.  The code computes in IEEE doubles.  Here every real is a      *)
(* fixed-point integer counted in units of 1/SCALE (1.0 = SCALE), and a    *)
(* quotient is rounded towards minus infinity.  Equity is counted in whole *)
(* currency units, prices in price ticks.  A missing value (pandas NaN) is *)
(* the sentinel NaN, which no computed number equals.                      *)
(***************************************************************************)
EXTENDS Integers, Sequences, FiniteSets, TLC

VARIABLES
    registry,   \* STRATEGY_REGISTRY: strategy name -> the class registered under it
    engine,     \* the VectorizedEngine object: initial_cash, commission, slippage
    strategy,   \* the strategy object: name and validated params
    pc,         \* where the caller stands: "idle", "ran" or "measured"
    given,      \* the Series handed to the last engine.run call, as it was when handed over
    df,         \* the same Series object, as the caller sees it after the call
    results,    \* what the last engine.run call returned
    genCalls,   \* TRUE iff the last engine.run call invoked strategy.generate_signals
    metrics,    \* what calculate_metrics returned for results
    signals,    \* what the last direct strategy.generate_signals call returned
    now,        \* wall clock of the persistence host, in clock ticks
    files,      \* the storage directory: file name -> JSON record
    nSaves,     \* number of save_result calls that returned
    listing,    \* what the last list_results call returned
    saved,      \* the last save_result call: its arguments and what it returned
    fin,        \* the disclosure table the enrichment was answered with
    enriched,   \* what the last add_fundamental_indicators call returned
    call,       \* caller of get_data -> its frame in get_data and the retry wrapper
    cache,      \* the cache directory: path -> cache file
    first,      \* query -> the first non-empty Series get_data returned for it
    ctor,       \* the last strategy construction: class, params handed in, outcome
    sweep,      \* the orchestrator's sweep over the registry: position and candidates
    answers,    \* what each enrichment source answers the provider with
    bt          \* the BacktestEngine.run_backtest loop: capital, position, bar

vars == <<registry, engine, strategy, pc, given, df, results, genCalls, metrics, signals,
          now, files, nSaves, listing, saved, fin, enriched, call, cache, first,
          ctor, sweep, answers, bt>>

engineVars == <<registry, engine, strategy, pc, given, df, results, genCalls, metrics,
               signals>>
storeVars  == <<now, files, nSaves, listing, saved>>
dataVars   == <<fin, enriched, call, cache, first>>
callerVars == <<ctor, sweep, answers, bt>>

-----------------------------------------------------------------------------
(* Bounds of the model *)

\* longest Series handed to the engine
MaxLen == 4

\* clock ticks in one second of wall-clock time
TicksPerSecond == 2

\* last tick of the wall clock
MaxTime == 3

\* most save_result calls in one behaviour
MaxSaves == 3

\* number of values a run_id can take (16^8 for eight hex digits)
HashSpace == 5

\* closing prices a bar may take, in price ticks
Prices == {10, 12}

-----------------------------------------------------------------------------
(* Numbers *)

\* 1.0 in fixed point; four decimals, the precision calculate_metrics rounds to
SCALE == 10000

\* pandas NaN
NaN == 0 - 2000000000

Max(a, b) == IF a >= b THEN a ELSE b

AbsVal(x) == IF x < 0 THEN 0 - x ELSE x

\* s[lo] + ... + s[hi], summed by halves to keep the evaluation shallow
RECURSIVE SumRange(_, _, _)
SumRange(s, lo, hi) ==
    IF lo > hi THEN 0
    ELSE IF lo = hi THEN s[lo]
    ELSE LET mid == (lo + hi) \div 2
         IN  SumRange(s, lo, mid) + SumRange(s, mid + 1, hi)

SumSeq(s) == SumRange(s, 1, Len(s))

\* Series.sum(): missing values are skipped
NanSum(s) == SumSeq(SelectSeq(s, LAMBDA x : x # NaN))

RECURSIVE IsqrtBetween(_, _, _)
IsqrtBetween(x, lo, hi) ==
    IF hi - lo <= 1 THEN lo
    ELSE LET mid == (lo + hi) \div 2
         IN  IF mid * mid <= x THEN IsqrtBetween(x, mid, hi)
             ELSE IsqrtBetween(x, lo, mid)

\* floor of the square root of a 31-bit number
Isqrt(x) == IsqrtBetween(x, 0, 46341)

-----------------------------------------------------------------------------
(* pandas Series operations used by the engine and the strategies *)

\* the values of a Series, computed once
Force(s) == SubSeq(s, 1, Len(s))

\* df["close"]
Close(d) == Force([i \in 1..Len(d) |-> d[i].close])

\* Series.shift(1)
shift(s) == Force([i \in 1..Len(s) |-> IF i = 1 THEN NaN ELSE s[i - 1]])

\* Series.fillna(v)
fillna(s, v) == Force([i \in 1..Len(s) |-> IF s[i] = NaN THEN v ELSE s[i]])

\* Series.diff()
diff(s) == Force([i \in 1..Len(s) |->
              IF i = 1 THEN NaN
              ELSE IF s[i] = NaN \/ s[i - 1] = NaN THEN NaN
              ELSE s[i] - s[i - 1]])

\* Series.abs()
abs(s) == Force([i \in 1..Len(s) |-> IF s[i] = NaN THEN NaN ELSE AbsVal(s[i])])

\* Series.pct_change(): close(t)/close(t-1) - 1
pct_change(s) == Force([i \in 1..Len(s) |->
                    IF i = 1 THEN NaN
                    ELSE ((s[i] - s[i - 1]) * SCALE) \div s[i - 1]])

\* Series.mean()
mean(s) == SumSeq(s) \div Len(s)

\* Series.std(): the sample standard deviation (ddof = 1), which is missing
\* for fewer than two values (0/0)
std(s) ==
    IF Len(s) < 2 THEN NaN
    ELSE LET m   == mean(s)
             ssd == SumSeq(Force([i \in 1..Len(s) |-> (s[i] - m) * (s[i] - m)]))
         IN  Isqrt(ssd \div (Len(s) - 1))

\* Series.rolling(window=w).std(): missing until w values are there, and for
\* a window of one value
rolling_std(s, w) ==
    Force([i \in 1..Len(s) |->
             IF i < w THEN NaN ELSE std(SubSeq(s, i - w + 1, i))])

\* Series.pct_change(n)
pct_change_n(s, n) ==
    Force([i \in 1..Len(s) |->
             IF i <= n THEN NaN ELSE ((s[i] - s[i - n]) * SCALE) \div s[i - n]])

\* the value left as it is
clip_none(x, lo, hi) == x

\* Series.clip(lo, hi), on one value
clip(x, lo, hi) == IF x < lo THEN lo ELSE IF x > hi THEN hi ELSE x

\* sum of the window of w values ending at i
WindowSum(s, i, w) == SumSeq(SubSeq(s, i - w + 1, i))

\* Series.rolling(window=w, min_periods=1).mean(): the mean of the values there
rolling_mean_partial(s, w) ==
    Force([i \in 1..Len(s) |->
             IF i < w THEN (WindowSum(s, i, i) * SCALE) \div i
             ELSE (WindowSum(s, i, w) * SCALE) \div w])

\* Series.rolling(window=w).mean(): missing until w values are there
rolling_mean(s, w) == Force([i \in 1..Len(s) |->
                         IF i < w THEN NaN ELSE (WindowSum(s, i, w) * SCALE) \div w])

\* Series.cumprod() of fixed-point factors
RECURSIVE CumprodUpTo(_, _, _)
\* the running products `done` of the first bars, extended up to bar hi; the
\* bars to do are split in halves to keep the evaluation shallow
CumprodUpTo(s, done, hi) ==
    LET n == Len(done)
    IN  IF n >= hi THEN done
        ELSE IF n + 1 = hi
             THEN Append(done, IF n = 0 THEN s[1] ELSE (done[n] * s[hi]) \div SCALE)
             ELSE CumprodUpTo(s, CumprodUpTo(s, done, (n + 1 + hi) \div 2), hi)

cumprod(s) == CumprodUpTo(s, <<>>, Len(s))

\* the peak of the whole Series on every bar, later bars included
cummax_whole(s) ==
    Force([i \in 1..Len(s) |-> CHOOSE x \in {s[j] : j \in 1..Len(s)} :
                                  \A j \in 1..Len(s) : s[j] <= x])

\* Series.cummax()
cummax(s) ==
    Force([i \in 1..Len(s) |-> CHOOSE x \in {s[j] : j \in 1..i} :
                                  \A j \in 1..i : s[j] <= x])


\* elementwise product of two fixed-point Series
mul(a, b) == Force([i \in 1..Len(a) |-> (a[i] * b[i]) \div SCALE])

\* elementwise difference of two Series
sub(a, b) == Force([i \in 1..Len(a) |-> a[i] - b[i]])

-----------------------------------------------------------------------------
(* Strategy catalog (src/backtest/strategy.py) *)

\* MA_Crossover_Strategy.generate_signals: 1 while the fast average is above
\* the slow one; a comparison with a missing average is False
MA_Crossover_generate_signals(params, d) ==
    LET fast_ma == rolling_mean(Close(d), params.fast)
        slow_ma == rolling_mean(Close(d), params.slow)
    IN  Force([i \in 1..Len(d) |->
            IF fast_ma[i] # NaN /\ slow_ma[i] # NaN /\ fast_ma[i] > slow_ma[i]
            THEN SCALE ELSE 0])

\* delta.where(delta > 0, 0): the rise of each bar, 0 where there is none
Gain(d) ==
    LET delta == diff(Close(d))
    IN  Force([i \in 1..Len(d) |-> IF delta[i] # NaN /\ delta[i] > 0 THEN delta[i] ELSE 0])

\* -delta.where(delta < 0, 0): the fall of each bar, 0 where there is none
Loss(d) ==
    LET delta == diff(Close(d))
    IN  Force([i \in 1..Len(d) |-> IF delta[i] # NaN /\ delta[i] < 0 THEN 0 - delta[i] ELSE 0])

\* rsi = 100 - 100 / (1 + gain/loss) over the rolling window, in percent.
\* The two rolling means share the window, so their quotient is the quotient
\* G/L of the window sums and 100/(1 + G/L) = 100*L/(G + L).  L = 0 makes
\* gain/loss infinite (rsi 100) or, with G = 0 too, 0/0 (rsi missing).
RSI(d, period) ==
    Force([i \in 1..Len(d) |->
        IF i < period THEN NaN
        ELSE LET G == WindowSum(Gain(d), i, period)
                 L == WindowSum(Loss(d), i, period)
             IN  IF L = 0
                 THEN (IF G = 0 THEN NaN ELSE 100 * SCALE)
                 ELSE 100 * SCALE - (100 * SCALE * L) \div (G + L)])

\* `holding = 0` before the loop of RSI_Strategy.generate_signals
RSI_initial_holding == 0

\* one iteration of the loop of RSI_Strategy.generate_signals
RSI_step(holding, rsi_i, params) ==
    IF holding = 0 /\ rsi_i # NaN /\ rsi_i < params.buy_threshold THEN 1
    ELSE IF holding = 1 /\ rsi_i # NaN /\ rsi_i > params.sell_threshold THEN 0
    ELSE holding

\* the loop with `position.iloc[i] = holding` ahead of the update of holding
RSI_generate_signals_stale(params, d) ==
    LET rsi == RSI(d, params.period)
        holding[i \in 0..Len(d)] ==
            IF i = 0 THEN RSI_initial_holding
            ELSE RSI_step(holding[i - 1], rsi[i], params)
    IN  Force([i \in 1..Len(d) |-> holding[i - 1] * SCALE])

\* RSI_Strategy.generate_signals: the holding flag after each bar
RSI_generate_signals(params, d) ==
    LET rsi == RSI(d, params.period)
        holding[i \in 0..Len(d)] ==
            IF i = 0 THEN RSI_initial_holding
            ELSE RSI_step(holding[i - 1], rsi[i], params)
    IN  Force([i \in 1..Len(d) |-> holding[i] * SCALE])

\* df["close"] as fixed-point numbers
ScaledClose(d) == Force([i \in 1..Len(d) |-> d[i].close * SCALE])

\* ma + sign * bb_std * std: the upper (sign 1) or lower (sign -1) band,
\* missing while the window is not full
BollingerBand(d, params, sign) ==
    LET ma == rolling_mean(Close(d), params.bb_period)
        sd == rolling_std(ScaledClose(d), params.bb_period)
    IN  Force([i \in 1..Len(d) |->
                 IF ma[i] = NaN \/ sd[i] = NaN THEN NaN
                 ELSE ma[i] + sign * ((params.bb_std * sd[i]) \div SCALE)])

\* one iteration of the loop of MeanReversion_Volatility_Strategy.generate_signals
MeanReversion_step(holding, close_i, lower_i, upper_i, rsi_i, params) ==
    IF holding = 0
    THEN (IF /\ lower_i # NaN /\ close_i < lower_i
             /\ rsi_i # NaN /\ rsi_i < params.rsi_oversold
          THEN 1 ELSE holding)
    ELSE (IF \/ upper_i # NaN /\ close_i > upper_i
             \/ rsi_i # NaN /\ rsi_i > params.rsi_overbought
          THEN 0 ELSE holding)

\* MeanReversion_Volatility_Strategy.generate_signals
MeanReversion_generate_signals(params, d) ==
    LET lower == BollingerBand(d, params, 0 - 1)
        upper == BollingerBand(d, params, 1)
        rsi   == RSI(d, params.rsi_period)
        close == ScaledClose(d)
        holding[i \in 0..Len(d)] ==
            IF i = 0 THEN 0
            ELSE MeanReversion_step(holding[i - 1], close[i], lower[i], upper[i],
                                    rsi[i], params)
    IN  Force([i \in 1..Len(d) |-> holding[i] * SCALE])

\* df["total_mv"] > market_cap_min
is_leader(d, params) == Force([i \in 1..Len(d) |-> d[i].total_mv > params.market_cap_min])

\* df["close"].pct_change(period) > 0; a missing change is not above 0
momentum(d, period) ==
    LET change == pct_change_n(Close(d), period)
    IN  Force([i \in 1..Len(d) |-> change[i] # NaN /\ change[i] > 0])

\* drawdown_ok: close over its expanding maximum, minus 1, above stop_loss
drawdown_ok(d, params) ==
    LET rolling_max == cummax(Close(d))
    IN  Force([i \in 1..Len(d) |->
                 (d[i].close * SCALE) \div rolling_max[i] - SCALE > params.stop_loss])

\* one iteration of the loop of Leader_Momentum_Drawdown_Strategy.generate_signals
Leader_Momentum_step(holding, leader_i, momentum_i, drawdown_ok_i) ==
    IF holding = 0
    THEN (IF leader_i /\ momentum_i /\ drawdown_ok_i THEN 1 ELSE holding)
    ELSE (IF ~drawdown_ok_i THEN 0 ELSE holding)

\* Leader_Momentum_Drawdown_Strategy.generate_signals
Leader_Momentum_generate_signals(params, d) ==
    LET leader == is_leader(d, params)
        mom    == momentum(d, params.momentum_period)
        dd_ok  == drawdown_ok(d, params)
        holding[i \in 0..Len(d)] ==
            IF i = 0 THEN 0
            ELSE Leader_Momentum_step(holding[i - 1], leader[i], mom[i], dd_ok[i])
    IN  Force([i \in 1..Len(d) |-> holding[i] * SCALE])

\* Leader_Valuation_Weight_Strategy.generate_signals: 1.0 for a cheap leader,
\* 0.5 for a fairly priced one, 0.2 for an expensive one, 0.0 otherwise
Leader_Valuation_generate_signals(params, d) ==
    Force([i \in 1..Len(d) |->
             IF d[i].total_mv > params.market_cap_min
             THEN (IF d[i].pe < params.pe_cheap THEN SCALE
                   ELSE IF d[i].pe < params.pe_expensive THEN SCALE \div 2
                   ELSE SCALE \div 5)
             ELSE 0])

\* Volatility_Target_Strategy.generate_signals: vol_target over the bar's
\* volatility (0.2 in place of 0), clipped to [0, 1], while momentum is up
Volatility_Target_generate_signals(params, d) ==
    LET mom == momentum(d, params.momentum_period)
    IN  Force([i \in 1..Len(d) |->
                 LET vol == IF d[i].volatility = 0 THEN SCALE \div 5 ELSE d[i].volatility
                     target_weight == clip((params.vol_target * SCALE) \div vol, 0, SCALE)
                 IN  IF mom[i] THEN target_weight ELSE 0])

\* BaseStrategy.generate_signals, dispatched on the strategy's class.  A
\* class outside the catalog is a stand-in whose signal repeats the weights
\* it was built with; with the single weight 0 it is the flat strategy.
generate_signals(strat, d) ==
    CASE strat.name = "ma_crossover"  -> MA_Crossover_generate_signals(strat.params, d)
      [] strat.name = "rsi_reversion" -> RSI_generate_signals(strat.params, d)
      [] strat.name = "mean_reversion_volatility" ->
            MeanReversion_generate_signals(strat.params, d)
      [] strat.name = "leader_momentum_drawdown" ->
            Leader_Momentum_generate_signals(strat.params, d)
      [] strat.name = "leader_valuation_weight" ->
            Leader_Valuation_generate_signals(strat.params, d)
      [] strat.name = "vol_target_multi_factor" ->
            Volatility_Target_generate_signals(strat.params, d)
      [] OTHER                        ->
            Force([i \in 1..Len(d) |->
                     strat.params.weights[((i - 1) % Len(strat.params.weights)) + 1]])

-----------------------------------------------------------------------------
(* Simulation engine (src/backtest/engine.py) *)

\* the head of VectorizedEngine.run without its guard
run_never_returns_empty(d) == FALSE

\* `if df.empty` at the head of VectorizedEngine.run
run_returns_empty(d) == Len(d) = 0

\* the signal applied to the bar that produced it
strategy_positions_unshifted(positions) == positions

\* positions.shift(-1).fillna(0): the signal of the next bar
strategy_positions_peek(positions) ==
    fillna(Force([i \in 1..Len(positions) |->
                    IF i = Len(positions) THEN NaN ELSE positions[i + 1]]), 0)

\* positions.shift(1).fillna(0): the position held on each bar
strategy_positions(positions) == fillna(shift(positions), 0)

\* strategy_positions.diff().fillna(0): the signed position change
trades_signed(held) == fillna(diff(held), 0)

\* strategy_positions.diff().abs().fillna(0): the position change of each bar
trades(held) == fillna(abs(diff(held)), 0)

\* gross_returns + transaction_costs: the costs credited instead of charged
net_returns_credited(eng, held, d) ==
    LET daily_returns     == fillna(pct_change(Close(d)), 0)
        gross_returns     == mul(held, daily_returns)
        transaction_costs == Force([i \in 1..Len(d) |->
                                (trades(held)[i] * (eng.commission + eng.slippage)) \div SCALE])
    IN  Force([i \in 1..Len(d) |-> gross_returns[i] + transaction_costs[i]])

\* net_returns = gross_returns - transaction_costs
net_returns(eng, held, d) ==
    LET daily_returns     == fillna(pct_change(Close(d)), 0)
        gross_returns     == mul(held, daily_returns)
        transaction_costs == Force([i \in 1..Len(d) |->
                                (trades(held)[i] * (eng.commission + eng.slippage)) \div SCALE])
    IN  sub(gross_returns, transaction_costs)

\* equity_curve = (1 + net_returns).cumprod() * initial_cash
equity_curve(eng, net) ==
    LET growth == cumprod(Force([i \in 1..Len(net) |-> SCALE + net[i]]))
    IN  Force([i \in 1..Len(net) |-> (growth[i] * eng.initial_cash) \div SCALE])

\* (equity_curve / equity_curve.cummax()) - 1
drawdown_curve(equity) ==
    LET peak == cummax(equity)
    IN  Force([i \in 1..Len(equity) |-> (equity[i] * SCALE) \div peak[i] - SCALE])

\* VectorizedEngine.run: the result frame, one row per bar of the input
run(eng, strat, d) ==
    IF run_returns_empty(d) THEN <<>>
    ELSE LET positions == generate_signals(strat, d)
             held      == strategy_positions(positions)
             net       == net_returns(eng, held, d)
             equity    == equity_curve(eng, net)
             dd        == drawdown_curve(equity)
         IN  Force([i \in 1..Len(d) |->
                [dt           |-> d[i].dt,
                 close        |-> d[i].close,
                 signal       |-> positions[i],
                 position     |-> held[i],
                 daily_return |-> net[i],
                 equity       |-> equity[i],
                 drawdown     |-> dd[i]]])

\* `results = df`: the columns are added to the caller's frame itself
input_aliased(d, res) == res

\* `results = df.copy()`: the columns are added to a copy, so the caller's
\* frame is after the call what it was before
input_after_run(d, res) == d


-----------------------------------------------------------------------------
(* Performance analytics (src/backtest/analytics.py) *)

\* np.sqrt(252), in fixed point
Sqrt252 == 158745

\* round(x, 3) of a fixed-point number; a missing value stays missing
round3(x) == IF x = NaN THEN NaN ELSE ((x + 5) \div 10) * 10

\* sharpe = (mean / std * sqrt(252)) if std != 0 else 0.  NaN != 0 is True,
\* and a quotient by NaN is NaN.
sharpe_ratio(returns) ==
    LET sd == std(returns)
    IN  IF sd # 0
        THEN (IF sd = NaN THEN NaN ELSE (mean(returns) * Sqrt252) \div sd)
        ELSE 0

\* Series.min()
MinOf(s) == CHOOSE x \in {s[i] : i \in 1..Len(s)} : \A j \in 1..Len(s) : x <= s[j]

Column(res, c) == Force([i \in 1..Len(res) |-> res[i][c]])

\* `{}`, what calculate_metrics returns for an empty result
EmptyMetrics == [k \in {} |-> 0]

\* PerformanceAnalytics.calculate_metrics.  cagr and calmar need a real power
\* and are left out; no other metric reads them.
calculate_metrics(res, initial_cash) ==
    IF Len(res) = 0 THEN EmptyMetrics
    ELSE LET returns  == Column(res, "daily_return")
             equity   == Column(res, "equity")
             sd       == std(returns)
             moved    == NanSum(abs(diff(Column(res, "position"))))
             nonzero  == Cardinality({i \in 1..Len(res) : returns[i] # 0})
             positive == Cardinality({i \in 1..Len(res) : returns[i] > 0})
         IN  [total_return |-> (equity[Len(res)] * SCALE) \div initial_cash - SCALE,
              volatility   |-> IF sd = NaN THEN NaN ELSE (sd * Sqrt252) \div SCALE,
              sharpe       |-> round3(sharpe_ratio(returns)),
              max_drawdown |-> MinOf(Column(res, "drawdown")),
              win_rate     |-> IF nonzero > 0 THEN (positive * SCALE) \div nonzero ELSE 0,
              trade_count  |-> moved \div (2 * SCALE),
              turnover     |-> moved \div Len(res)]

-----------------------------------------------------------------------------
(* Objects and inputs of the engine specification *)

\* initial_cash: float = 100000.0, of VectorizedEngine.__init__ and of calculate_metrics
DefaultCash == 100000

\* commission: float = 0.0003
DefaultCommission == 3

\* slippage: float = 0.001
DefaultSlippage == 10

\* the engines built: the default one, a free one and a dear one
Engines ==
    { [initial_cash |-> DefaultCash, commission |-> DefaultCommission, slippage |-> DefaultSlippage],
      [initial_cash |-> DefaultCash, commission |-> 0, slippage |-> 0],
      [initial_cash |-> DefaultCash, commission |-> 100, slippage |-> 400] }

\* buy_threshold: float = 30.0 and sell_threshold: float = 70.0 of RSI_Params, in percent
RSI_buy_threshold == 30 * SCALE
RSI_sell_threshold == 70 * SCALE

\* the names STRATEGY_REGISTRY holds once strategy.py is loaded (those modelled)
RegisteredNames == {"ma_crossover", "rsi_reversion"}

\* STRATEGY_REGISTRY = {} at the head of the module
EmptyRegistry == [n \in {} |-> 0]

\* STRATEGY_REGISTRY[cls.name] = cls
register_strategy(reg, cls) ==
    [n \in DOMAIN reg \cup {cls.name} |-> IF n = cls.name THEN cls ELSE reg[n]]

\* a strategy class: the name it declares and the module that defines it
StrategyClass(name, module) == [name |-> name, defined_in |-> module]

\* the registry once src/backtest/strategy.py is loaded
LoadedRegistry == [n \in RegisteredNames |-> StrategyClass(n, "strategy")]

\* the strategy objects built: registered classes with short windows, the
\* flat strategy and a stand-in with graded weights
Strategies ==
    { [name |-> "ma_crossover", params |-> [fast |-> 1, slow |-> 2]],
      [name |-> "ma_crossover", params |-> [fast |-> 2, slow |-> 3]],
      [name |-> "rsi_reversion",
       params |-> [period |-> 1, buy_threshold |-> RSI_buy_threshold,
                   sell_threshold |-> RSI_sell_threshold]],
      [name |-> "rsi_reversion",
       params |-> [period |-> 2, buy_threshold |-> RSI_buy_threshold,
                   sell_threshold |-> RSI_sell_threshold]],
      [name |-> "all_flat", params |-> [weights |-> <<0>>]],
      [name |-> "graded", params |-> [weights |-> <<SCALE \div 2, SCALE, SCALE \div 5>>]] }

\* a Series of the given closes on consecutive days
Frame(closes) == Force([i \in 1..Len(closes) |-> [dt |-> i, close |-> closes[i]]])

\* every Series of at most MaxLen bars, the empty one included
SeriesSet == UNION { {Frame(c) : c \in [1..n -> Prices]} : n \in 0..MaxLen }


-----------------------------------------------------------------------------
(* Run persistence (src/backtest/persistence.py)                           *)
(*                                                                         *)
(* A string that is searched by prefix is a sequence of tokens, so that    *)
(* "ma" is a prefix of "ma_crossover".  A dict has string keys and number  *)
(* values; a file holds the JSON text of a record, where a number is       *)
(* written as a number token and a missing value as the token NaN.         *)

\* the storage directory os.makedirs leaves behind
EmptyDirectory == [f \in {} |-> 0]

\* no list_results call has returned yet
NothingListed == [strategy_name |-> <<>>, results |-> <<>>, saves |-> 0]

\* no save_result call has returned yet
NothingSaved == [strategy_name |-> <<>>, returned |-> <<>>]

\* the default storage_dir of BacktestPersistence
storage_dir == ".backtest_results"

\* json.dump of a number
json_dump_number(x) ==
    IF x = NaN THEN [token |-> "NaN", digits |-> 0]
    ELSE [token |-> "number", digits |-> x]

\* json.load of a number token; NaN is read as a float nan
json_load_number(t) == IF t.token = "NaN" THEN NaN ELSE t.digits

\* json.dump of a dict of numbers
json_dump_dict(d) == [k \in DOMAIN d |-> json_dump_number(d[k])]

\* json.load of a dict of numbers
json_load_dict(t) == [k \in DOMAIN t |-> json_load_number(t[k])]

\* json.dump(record, f): the strings as they are, the dicts as JSON objects
json_dump(rec) ==
    [run_id     |-> rec.run_id,
     timestamp  |-> rec.timestamp,
     strategy   |-> rec.strategy,
     parameters |-> json_dump_dict(rec.parameters),
     data_info  |-> json_dump_dict(rec.data_info),
     metrics    |-> json_dump_dict(rec.metrics)]

\* json.load(f)
json_load(text) ==
    [run_id     |-> text.run_id,
     timestamp  |-> text.timestamp,
     strategy   |-> text.strategy,
     parameters |-> json_load_dict(text.parameters),
     data_info  |-> json_load_dict(text.data_info),
     metrics    |-> json_load_dict(text.metrics)]

\* ==, on two floats: a nan equals nothing, itself included
float_eq(x, y) == x # NaN /\ y # NaN /\ x = y

\* ==, on two dicts of numbers
dict_eq(a, b) ==
    /\ DOMAIN a = DOMAIN b
    /\ \A k \in DOMAIN a : float_eq(a[k], b[k])

\* datetime.now().strftime("%Y%m%d_%H%M%S"): the clock cut to whole seconds
timestamp(clock) == clock \div TicksPerSecond

\* run_id = md5(id_str).hexdigest()[:8], id_str made of the strategy name,
\* the parameters and the data descriptor: a digest of the three, cut to
\* the width of the id
run_id(strategy_name, params, data_info) ==
    (7 * Len(strategy_name) + 3 * params.fast + params.slow
       + 11 * data_info.symbol + data_info.data_len) % HashSpace

\* filename = f"{strategy_name}_{timestamp}_{run_id}.json"
filename(strategy_name, ts, id) ==
    strategy_name \o <<"_", ToString(ts), "_", ToString(id), ".json">>

\* filepath = os.path.join(self.storage_dir, filename)
filepath(name) == <<storage_dir, "/">> \o name

\* `return filepath`: what save_result hands back to its caller
save_result_returns(rec, path) == path

\* the `record` dict of save_result
record(strategy_name, params, metr, data_info, clock) ==
    [run_id     |-> run_id(strategy_name, params, data_info),
     timestamp  |-> timestamp(clock),
     strategy   |-> strategy_name,
     parameters |-> params,
     data_info  |-> data_info,
     metrics    |-> metr]

\* the file is not written
write_nothing(dir, name, rec) == dir

\* open(filepath, 'w') and json.dump: the file is created, or truncated and
\* rewritten when it is there already
write_file(dir, name, rec) ==
    [f \in DOMAIN dir \cup {name} |-> IF f = name THEN rec ELSE dir[f]]

\* str.startswith
startswith(str, prefix) ==
    /\ Len(prefix) <= Len(str)
    /\ SubSeq(str, 1, Len(prefix)) = prefix

\* str.endswith(".json")
endswith_json(str) == Len(str) > 0 /\ str[Len(str)] = ".json"

\* the files list_results reads: `if strategy_name and not startswith`, so
\* None and the empty string select every file
selected(dir, strategy_name) ==
    { f \in DOMAIN dir :
        /\ endswith_json(f)
        /\ (strategy_name = <<>> \/ startswith(f, strategy_name)) }

\* sorted(results, key=timestamp, reverse=True) over the files in the order
\* os.listdir gives them, which is arbitrary: records of one second come in
\* either order
list_results(dir, strategy_name) ==
    LET chosen == selected(dir, strategy_name)
        n      == Cardinality(chosen)
    IN  { Force([i \in 1..n |-> json_load(dir[order[i]])]) :
            order \in { o \in [1..n -> chosen] :
                          /\ \A i \in 1..n : \A j \in 1..n : i # j => o[i] # o[j]
                          /\ \A i \in 1..n : \A j \in 1..n :
                                i < j => dir[o[i]].timestamp >= dir[o[j]].timestamp } }

-----------------------------------------------------------------------------
(* Market data provider (src/backtest/data.py)                             *)
(*                                                                         *)
(* A DataFrame is the sequence of its rows.  What a function hands back is *)
(* tagged with its kind, so that None and an empty DataFrame differ.  A    *)
(* cache file is complete once to_parquet has returned; until then it      *)
(* exists with part of its bytes.                                          *)

\* @retry(max_retries=3)
max_retries == 3

\* retry(..., delay=1, ...): seconds slept after the first failure
delay == 1

\* retry(..., backoff=2): factor of the delay from one failure to the next
backoff == 2

\* Series.ffill(): a missing value takes the last known value before it
ffill(s) ==
    Force([i \in 1..Len(s) |->
        LET known == {j \in 1..i : s[j] # NaN}
        IN  IF known = {} THEN NaN
            ELSE s[CHOOSE j \in known : \A k \in known : k <= j]])

\* Series.bfill(): a missing value takes the first known value after it
bfill(s) ==
    Force([i \in 1..Len(s) |->
        LET known == {j \in i..Len(s) : s[j] # NaN}
        IN  IF known = {} THEN NaN
            ELSE s[CHOOSE j \in known : \A k \in known : j <= k]])

\* DataFrame.sort_values(col), for rows that differ in col
sort_values(t, col) ==
    LET rows == {t[i] : i \in 1..Len(t)}
    IN  Force(CHOOSE s \in [1..Len(t) -> rows] :
                /\ \A r \in rows : \E i \in 1..Len(t) : s[i] = r
                /\ \A i \in 1..(Len(t) - 1) : s[i][col] <= s[i + 1][col])

\* the column col of pd.merge_asof(df, fin_df, left_on="dt",
\* right_on="report_date", direction="backward"), fin_df sorted by date: the
\* last row of fin_df dated on or before the bar, missing when there is none
merge_asof(d, fin_df, col) ==
    Force([i \in 1..Len(d) |->
        LET prior == {j \in 1..Len(fin_df) : fin_df[j].report_date <= d[i].dt}
        IN  IF prior = {} THEN NaN
            ELSE fin_df[CHOOSE j \in prior : \A k \in prior : k <= j][col]])

\* df[col].ffill().bfill().fillna(0)
final_fill(s) == fillna(bfill(ffill(s)), 0)

\* df["close"] / df["eps"].apply(lambda x: x if x and x > 0 else np.nan)
price_earnings(d, eps) ==
    Force([i \in 1..Len(d) |->
        IF eps[i] = NaN \/ eps[i] <= 0 THEN NaN
        ELSE (d[i].close * SCALE) \div eps[i]])

\* DataManager.add_fundamental_indicators with both upstream requests
\* answered: the columns eps, roe and pe of the result.  fin_df is the
\* table of disclosures as the upstream source returned it.
add_fundamental_indicators(d, fin_df) ==
    IF fin_df = <<>>
    THEN Force([i \in 1..Len(d) |->
            [dt |-> d[i].dt, close |-> d[i].close, eps |-> 0, roe |-> 0, pe |-> 0]])
    ELSE LET sorted == sort_values(fin_df, "report_date")
             eps    == merge_asof(d, sorted, "eps")
             roe    == merge_asof(d, sorted, "roe")
             pe     == price_earnings(d, eps)
         IN  Force([i \in 1..Len(d) |->
                [dt |-> d[i].dt, close |-> d[i].close,
                 eps |-> final_fill(eps)[i], roe |-> final_fill(roe)[i],
                 pe |-> final_fill(pe)[i]]])

\* the disclosure tables the upstream source may return: up to two
\* disclosures, dated before, within or after the bars, in either order
FinTables ==
    LET Disclosures == { [report_date |-> t, eps |-> e, roe |-> r] :
                           t \in {0, 2, MaxLen + 1}, e \in {1, 2}, r \in {1500, 2500} }
    IN  {<<>>} \cup { <<x>> : x \in Disclosures }
               \cup { q \in Disclosures \X Disclosures :
                         q[1].report_date # q[2].report_date }

\* the callers of get_data that run at the same time
Procs == {"p1", "p2"}

\* the queries made: they differ in the adjustment mode
Keys ==
    { [symbol |-> "600519", freq |-> "daily", adjust |-> a,
       start_date |-> "20200101", end_date |-> "20201231"] : a \in {"qfq", "hfq"} }

\* key = f"{symbol}_{freq}_{adjust}_{start_date}_{end_date}"
cache_key(k) == <<k.symbol, "_", k.freq, "_", k.adjust, "_", k.start_date, "_", k.end_date>>

\* hashlib.md5(key.encode()).hexdigest(): a digest of 128 bits, taken to
\* differ for strings that differ
md5(s) == <<"md5(">> \o s \o <<")">>

\* self.cache_dir
cache_dir == ".backtest_cache"

\* DataManager._get_cache_path
get_cache_path(k) == <<cache_dir, "/", k.symbol, "_">> \o md5(cache_key(k)) \o <<".parquet">>

\* the cache directory after DataManager.__init__ made it
EmptyCache == [path \in {} |-> 0]

\* what a function hands back
DataFrame(rows) == [kind |-> "DataFrame", rows |-> rows]
None == [kind |-> "None", rows |-> <<>>]
NotReturned == [kind |-> "nothing", rows |-> <<>>]

\* what ak.stock_zh_a_hist may answer: rows (date, closing price) as the
\* source orders them, no rows, or an exception
UpstreamRows ==
    { << [riqi |-> 1, shoupan |-> 10], [riqi |-> 2, shoupan |-> 12] >>,
      << [riqi |-> 2, shoupan |-> 10], [riqi |-> 1, shoupan |-> 12] >> }
UpstreamErrors == {"ConnectionError"}

\* the disclosure tables the enrichment of get_data may be answered with
ProviderFinTables ==
    { <<>>, << [report_date |-> 2, eps |-> 2, roe |-> 1500] >> }

\* the upstream requests of the three enrichment steps of get_data
EnrichmentSources ==
    {"stock_financial_abstract_ths", "stock_individual_info_em",
     "macro_china_pmi_yearly", "stock_zh_index_daily"}

\* lines 66-82 of fetch_akshare_data: rename to the unified schema, sort by dt
normalize(raw) ==
    sort_values(Force([i \in 1..Len(raw) |-> [dt |-> raw[i].riqi, close |-> raw[i].shoupan]]),
                "dt")

\* a caller outside get_data
IdleFrame ==
    [pc |-> "idle", key |-> CHOOSE k \in Keys : k.adjust = "qfq", add_indicators |-> FALSE,
     retries |-> 0, current_delay |-> delay, attempts |-> 0, slept |-> <<>>,
     errors |-> <<>>, df |-> <<>>, fetched |-> NotReturned, returned |-> NotReturned,
     raised |-> "", requests |-> 0, hit |-> FALSE, observed |-> "nothing"]

\* wrapper, lines 16-17: the frame of a call entering the retry loop
retry_enter(k, add_indicators, hit) ==
    [IdleFrame EXCEPT !.pc = "try", !.key = k, !.add_indicators = add_indicators,
                      !.retries = 0, !.current_delay = delay, !.hit = hit]

\* the except clause with `raise e` left out: the loop ends and the
\* wrapper falls through to line 27
retry_on_exception_swallow(f, e) ==
    IF f.retries + 1 = max_retries
    THEN [f EXCEPT !.retries = @ + 1, !.errors = Append(@, e), !.pc = "try"]
    ELSE [f EXCEPT !.retries = @ + 1, !.errors = Append(@, e),
                   !.slept = Append(@, f.current_delay),
                   !.current_delay = @ * backoff, !.pc = "try"]

\* wrapper, lines 21-26: count the failure, re-raise it when it was the
\* last attempt, else sleep and lengthen the delay
retry_on_exception(f, e) ==
    IF f.retries + 1 = max_retries
    THEN [f EXCEPT !.retries = @ + 1, !.errors = Append(@, e), !.raised = e,
                   !.pc = "raised"]
    ELSE [f EXCEPT !.retries = @ + 1, !.errors = Append(@, e),
                   !.slept = Append(@, f.current_delay),
                   !.current_delay = @ * backoff, !.pc = "try"]

\* get_data, lines 92-96, once fetch_akshare_data handed back `fetched`
get_data_returns(f, fetched, fin_df) ==
    IF fetched.kind = "None"
    THEN (IF f.add_indicators
          THEN [f EXCEPT !.fetched = fetched, !.raised = "AttributeError", !.pc = "raised"]
          ELSE [f EXCEPT !.fetched = fetched, !.returned = fetched, !.pc = "returned"])
    ELSE IF f.add_indicators /\ fetched.rows # <<>>
    THEN [f EXCEPT !.fetched = fetched,
                   !.returned = DataFrame(add_fundamental_indicators(fetched.rows, fin_df)),
                   !.requests = @ + Cardinality(EnrichmentSources),
                   !.pc = "returned"]
    ELSE [f EXCEPT !.fetched = fetched, !.returned = fetched, !.pc = "returned"]

\* the provider before any call
DataAtRest ==
    /\ fin = <<>>
    /\ enriched = <<>>
    /\ call = [p \in Procs |-> IdleFrame]
    /\ cache = EmptyCache
    /\ first = [k \in Keys |-> <<>>]

\* no construction, sweep, enrichment or run_backtest call under way
CallersAtRest ==
    /\ ctor = [pc |-> "idle"]
    /\ sweep = [pc |-> "idle"]
    /\ answers = [pc |-> "idle"]
    /\ bt = [pc |-> "idle"]

-----------------------------------------------------------------------------
(* Operations of the engine and of the analytics *)

\* engine.run(strategy, d): the caller hands a Series to the engine and keeps
\* the result
RunOn(d) ==
    /\ given' = d
    /\ results' = run(engine, strategy, d)
    /\ df' = input_after_run(d, results')
    /\ genCalls' = ~run_returns_empty(d)
    /\ metrics' = EmptyMetrics
    /\ pc' = "ran"
    /\ UNCHANGED <<registry, engine, strategy, signals>>
    /\ UNCHANGED storeVars
    /\ UNCHANGED dataVars
    /\ UNCHANGED callerVars

Run == \E d \in SeriesSet : RunOn(d)

\* PerformanceAnalytics.calculate_metrics(results), with its default initial_cash
CalculateMetrics ==
    /\ pc = "ran"
    /\ metrics' = calculate_metrics(results, DefaultCash)
    /\ pc' = "measured"
    /\ UNCHANGED <<registry, engine, strategy, given, df, results, genCalls, signals>>
    /\ UNCHANGED storeVars
    /\ UNCHANGED dataVars
    /\ UNCHANGED callerVars

Init ==
    /\ registry = LoadedRegistry
    /\ engine \in Engines
    /\ strategy \in Strategies
    /\ pc = "idle"
    /\ given = <<>>
    /\ df = <<>>
    /\ results = <<>>
    /\ genCalls = FALSE
    /\ metrics = EmptyMetrics
    /\ signals = <<>>
    /\ now = 0
    /\ files = EmptyDirectory
    /\ nSaves = 0
    /\ listing = NothingListed
    /\ saved = NothingSaved
    /\ DataAtRest
    /\ CallersAtRest

Next == Run \/ CalculateMetrics

Spec == Init /\ [][Next]_vars


-----------------------------------------------------------------------------
(* Properties of the engine *)

\* the engine has returned a result for a Series of at least n bars
Ran(n) == pc # "idle" /\ Len(given) >= n /\ Len(results) = Len(given)

\* C1 (shift invariant): in every result of a non-empty Series the signal
\* column is what generate_signals returned for the Series, the position of
\* the first bar is 0 and the position of every later bar is the signal of
\* the bar before it.
ShiftInvariant ==
    (pc # "idle" /\ Len(given) > 0) =>
        /\ Len(results) = Len(given)
        /\ \A t \in 1..Len(results) :
              results[t].signal = generate_signals(strategy, given)[t]
        /\ results[1].position = 0
        /\ \A t \in 2..Len(results) : results[t].position = results[t - 1].signal

\* a result in which a position is entered on one bar and left on a later one
ShiftWitness ==
    /\ Ran(3)
    /\ \E t \in 2..Len(results) - 1 :
          /\ results[t].position > 0
          /\ results[t + 1].position = 0
          /\ results[t + 1].signal > 0

\* the two Series have the same first n bars
SamePrefix(d1, d2, n) ==
    /\ n <= Len(d1)
    /\ n <= Len(d2)
    /\ \A i \in 1..n : d1[i] = d2[i]

\* C2 (no look-ahead): whatever Series shares its first n bars with the one
\* that was run, running it gives the same position on each of those n bars.
NoLookAhead ==
    pc # "idle" =>
        \A d2 \in SeriesSet : \A n \in 1..MaxLen :
            SamePrefix(given, d2, n) =>
                \A i \in 1..n :
                    run(engine, strategy, d2)[i].position = results[i].position

\* a run and a Series that shares two bars with it, differs on the third, and
\* is given a different signal and a different later position for it
NoLookAheadWitness ==
    /\ Ran(4)
    /\ \E d2 \in SeriesSet :
          /\ Len(d2) = Len(given)
          /\ SamePrefix(given, d2, 2)
          /\ d2[3] # given[3]
          /\ run(engine, strategy, d2)[3].signal # results[3].signal
          /\ run(engine, strategy, d2)[4].position # results[4].position

\* the net return the cost model prescribes for bar t of a result
PrescribedReturn(res, eng, t) ==
    IF t = 1 THEN 0
    ELSE LET price_return == ((res[t].close - res[t - 1].close) * SCALE) \div res[t - 1].close
             change       == AbsVal(res[t].position - res[t - 1].position)
         IN  (res[t].position * price_return) \div SCALE
                - (change * (eng.commission + eng.slippage)) \div SCALE

\* C3 (cost model): daily_return(t) = position(t) * (close(t)/close(t-1) - 1)
\* - |position(t) - position(t-1)| * (commission + slippage) on every bar,
\* and 0 on the first bar.
DailyReturnFormula ==
    pc # "idle" =>
        \A t \in 1..Len(results) :
            results[t].daily_return = PrescribedReturn(results, engine, t)

\* a result with a charged entry and a charged exit on bars whose price moved
DailyReturnWitness ==
    /\ Ran(4)
    /\ engine.commission + engine.slippage > 0
    /\ \E t \in 2..Len(results) - 1 :
          /\ results[t].position > results[t - 1].position
          /\ results[t + 1].position < results[t].position
          /\ results[t].close # results[t - 1].close
          /\ results[t].daily_return # 0
          /\ results[t + 1].daily_return < 0

\* the highest equity of bars 1..t
PeakUpTo(res, t) ==
    CHOOSE x \in {res[j].equity : j \in 1..t} : \A j \in 1..t : res[j].equity <= x

\* C4 (drawdown bound): drawdown(t) = equity(t) / max(equity(0..t)) - 1, which
\* is <= 0 on every bar and 0 on every bar whose equity is a new running
\* maximum; the first bar's equity is initial_cash.
DrawdownBound ==
    (pc # "idle" /\ Len(results) > 0) =>
        /\ results[1].equity = engine.initial_cash
        /\ \A t \in 1..Len(results) :
              /\ results[t].drawdown
                    = (results[t].equity * SCALE) \div PeakUpTo(results, t) - SCALE
              /\ results[t].drawdown <= 0
              /\ (results[t].equity = PeakUpTo(results, t)) => results[t].drawdown = 0

\* a result that makes a new high above initial_cash and later falls below it
DrawdownWitness ==
    /\ Ran(4)
    /\ \E t \in 2..Len(results) - 1 :
          /\ results[t].equity > engine.initial_cash
          /\ results[t].drawdown = 0
          /\ results[t + 1].drawdown < 0

\* C5 (empty input): a run on an empty Series returns the empty result and
\* does not call generate_signals.
EmptyRun ==
    (pc # "idle" /\ Len(given) = 0) => (results = <<>> /\ ~genCalls)

\* the engine has returned from a run on the empty Series
EmptyRunWitness == pc = "ran" /\ given = <<>> /\ results = <<>>

-----------------------------------------------------------------------------
(* Properties of the analytics *)

\* the metrics of a non-empty result have been computed
Measured == pc = "measured" /\ Len(results) > 0

\* every daily return of the result is 0
AllReturnsZero == \A t \in 1..Len(results) : results[t].daily_return = 0

\* C7 (Sharpe zero-variance guard): for every non-empty result whose daily
\* returns are all 0, of one bar or more, the sharpe returned is exactly 0,
\* never NaN.
SharpeZeroGuard ==
    (Measured /\ AllReturnsZero) => metrics.sharpe = 0

\* C8 (all-flat scenario): the flat strategy on any Series of one bar or
\* more yields total_return = 0, sharpe = 0, max_drawdown = 0 and
\* trade_count = 0.
AllFlatMetrics ==
    (Measured /\ strategy.name = "all_flat") =>
        /\ metrics.total_return = 0
        /\ metrics.sharpe = 0
        /\ metrics.max_drawdown = 0
        /\ metrics.trade_count = 0


-----------------------------------------------------------------------------
(* The rising-trend scenario: 60 bars from 100 to 160, moving-average      *)
(* crossover with fast = 5 and slow = 20, the default engine.  A price     *)
(* tick is 0.1 here.                                                       *)

\* closes of 60 bars rising strictly from 100.0 to 160.0: in equal steps for
\* k = 0; for k > 0 by one tick a bar, but for one jump on bar k (bars are
\* counted from 0)
TrendCloses(k) ==
    Force([i \in 1..60 |->
             IF k = 0 THEN 1000 + (600 * (i - 1)) \div 59
             ELSE IF i - 1 < k THEN 1000 + (i - 1)
             ELSE 1600 - (60 - i)])

TrendFamily == { Frame(TrendCloses(k)) : k \in 0..59 }

\* the Series rises by the same amount on every bar, to the tick
EqualSteps(d) ==
    \A i \in 2..Len(d) : \A j \in 2..Len(d) :
        AbsVal((d[i].close - d[i - 1].close) - (d[j].close - d[j - 1].close)) <= 1

InitTrend ==
    /\ registry = LoadedRegistry
    /\ engine = [initial_cash |-> DefaultCash, commission |-> DefaultCommission,
                 slippage |-> DefaultSlippage]
    /\ strategy = [name |-> "ma_crossover", params |-> [fast |-> 5, slow |-> 20]]
    /\ pc = "idle"
    /\ given = <<>>
    /\ df = <<>>
    /\ results = <<>>
    /\ genCalls = FALSE
    /\ metrics = EmptyMetrics
    /\ signals = <<>>
    /\ now = 0
    /\ files = EmptyDirectory
    /\ nSaves = 0
    /\ listing = NothingListed
    /\ saved = NothingSaved
    /\ DataAtRest
    /\ CallersAtRest

\* the scenario hands one Series to the engine, once
RunTrend == pc = "idle" /\ \E d \in TrendFamily : RunOn(d)

NextTrend == RunTrend \/ CalculateMetrics

SpecTrend == InitTrend /\ [][NextTrend]_vars

\* position 0 on the first 20 bars and position 1 on every later bar
WarmUpThenLong ==
    /\ \A t \in 1..20 : results[t].position = 0
    /\ \A t \in 21..Len(results) : results[t].position = SCALE

-----------------------------------------------------------------------------
(* The result store: a caller saves results and lists them while the       *)
(* wall clock advances.                                                    *)

\* strategy names a caller saves under
StoreNames == { <<"ma">>, <<"ma", "_", "crossover">> }

\* strategy.params.model_dump()
StoreParams == { [fast |-> 5, slow |-> 20], [fast |-> 10, slow |-> 30] }

\* {"symbol": stock_code, "data_len": len(df)}
StoreDataInfo == { [symbol |-> 1, data_len |-> 60] }

\* the metrics dict of a run: a measured Sharpe ratio, or a missing one
StoreMetrics == { [sharpe |-> 15000], [sharpe |-> NaN] }

\* BacktestPersistence.save_result(strategy_name, params, metrics, data_info)
SaveResult ==
    /\ nSaves < MaxSaves
    /\ \E name \in StoreNames, params \in StoreParams,
          metr \in StoreMetrics, info \in StoreDataInfo :
          LET rec  == record(name, params, metr, info, now)
              file == filename(name, rec.timestamp, rec.run_id)
          IN  /\ files' = write_file(files, file, json_dump(rec))
              /\ saved' = [strategy_name |-> name, params |-> params, metrics |-> metr,
                           data_info |-> info, timestamp |-> rec.timestamp,
                           returned |-> save_result_returns(rec, filepath(file))]
    /\ nSaves' = nSaves + 1
    /\ UNCHANGED <<now, listing>>
    /\ UNCHANGED engineVars
    /\ UNCHANGED dataVars
    /\ UNCHANGED callerVars

\* BacktestPersistence.list_results(strategy_name); no name is the empty one
ListResults ==
    /\ \E name \in StoreNames \cup {<<>>} :
          \E res \in list_results(files, name) :
              listing' = [strategy_name |-> name, results |-> res, saves |-> nSaves]
    /\ UNCHANGED <<now, files, nSaves, saved>>
    /\ UNCHANGED engineVars
    /\ UNCHANGED dataVars
    /\ UNCHANGED callerVars

\* the wall clock advances
Tick ==
    /\ now < MaxTime
    /\ now' = now + 1
    /\ UNCHANGED <<files, nSaves, listing, saved>>
    /\ UNCHANGED engineVars
    /\ UNCHANGED dataVars
    /\ UNCHANGED callerVars

NextStore == SaveResult \/ ListResults \/ Tick

\* an empty store, next to an engine that is not run
InitStore == InitTrend

SpecStore == InitStore /\ [][NextStore]_vars

\* C10 as stated: save_result never overwrites or deletes an earlier record,
\* whatever the inputs and the times of the calls, so list_results() after n
\* saves returns n records.
AppendOnly ==
    (listing.strategy_name = <<>> /\ listing.saves = nSaves)
        => Len(listing.results) = nSaves


\* list_results(name) has returned after the last save_result(name, ...), with
\* no save in between
ListedAfterSave ==
    /\ nSaves > 0
    /\ listing.saves = nSaves
    /\ listing.strategy_name = saved.strategy_name

\* C11 as stated: save_result(name, params, metrics, data_info) followed by
\* list_results(name) returns a record whose strategy is name and whose
\* metrics and parameters deep-equal the values passed in.
RoundTrip ==
    ListedAfterSave =>
        \E i \in 1..Len(listing.results) :
            /\ listing.results[i].strategy = saved.strategy_name
            /\ dict_eq(listing.results[i].parameters, saved.params)
            /\ dict_eq(listing.results[i].metrics, saved.metrics)

\* C11 as amended: the record is there with the same strategy, the same
\* parameters and metrics of the same keys, every number as passed in and
\* every missing value (NaN) read back as a missing value; so the dicts
\* deep-equal the inputs when these hold no missing value.
RoundTripUpToNaN ==
    ListedAfterSave =>
        \E i \in 1..Len(listing.results) :
            /\ listing.results[i].strategy = saved.strategy_name
            /\ listing.results[i].parameters = saved.params
            /\ listing.results[i].metrics = saved.metrics
            /\ (\A k \in DOMAIN saved.metrics : saved.metrics[k] # NaN)
                  => /\ dict_eq(listing.results[i].parameters, saved.params)
                     /\ dict_eq(listing.results[i].metrics, saved.metrics)

\* a result saved into a store that holds other records is listed back, its
\* numbers as passed in
RoundTripWitness ==
    /\ ListedAfterSave
    /\ Cardinality(DOMAIN files) > 1
    /\ Len(listing.results) > 1
    /\ \E i \in 1..Len(listing.results) :
          /\ listing.results[i].timestamp = saved.timestamp
          /\ dict_eq(listing.results[i].metrics, saved.metrics)

\* C12 as stated: what save_result returns depends on (strategy_name,
\* parameters, data_descriptor) alone, whatever the time of the call, and is
\* the run_id of the written record.
RecordIdFromContent ==
    nSaves > 0 =>
        /\ saved.returned
              = <<ToString(run_id(saved.strategy_name, saved.params, saved.data_info))>>
        /\ \A clock \in 0..MaxTime :
              LET rec == record(saved.strategy_name, saved.params, saved.metrics,
                                saved.data_info, clock)
              IN  save_result_returns(rec,
                      filepath(filename(saved.strategy_name, rec.timestamp, rec.run_id)))
                    = saved.returned


-----------------------------------------------------------------------------
(* The strategy registry while modules that define strategy classes load.  *)

\* names that classes declare
DeclaredNames == {"ma_crossover", "rsi_reversion", "macd_trend", "trend_momentum_combo"}

\* modules that define strategy classes: the catalog and two later ones
Modules == {"strategy", "plugin_a", "plugin_b"}

\* @register_strategy on a class definition
RegisterStrategy ==
    /\ \E name \in DeclaredNames, module \in Modules :
          registry' = register_strategy(registry, StrategyClass(name, module))
    /\ UNCHANGED <<engine, strategy, pc, given, df, results, genCalls, metrics, signals>>
    /\ UNCHANGED storeVars
    /\ UNCHANGED dataVars
    /\ UNCHANGED callerVars

InitRegistry ==
    /\ registry = EmptyRegistry
    /\ engine = [initial_cash |-> DefaultCash, commission |-> DefaultCommission,
                 slippage |-> DefaultSlippage]
    /\ strategy = [name |-> "ma_crossover", params |-> [fast |-> 5, slow |-> 20]]
    /\ pc = "idle"
    /\ given = <<>>
    /\ df = <<>>
    /\ results = <<>>
    /\ genCalls = FALSE
    /\ metrics = EmptyMetrics
    /\ signals = <<>>
    /\ now = 0
    /\ files = EmptyDirectory
    /\ nSaves = 0
    /\ listing = NothingListed
    /\ saved = NothingSaved
    /\ DataAtRest
    /\ CallersAtRest

NextRegistry == RegisterStrategy

SpecRegistry == InitRegistry /\ [][NextRegistry]_vars

\* C13 as stated: a name that is in the registry keeps the class first
\* registered under it, whatever is registered afterwards.
FirstRegistrationKept ==
    [][\A n \in DOMAIN registry :
          n \in DOMAIN registry' /\ registry'[n] = registry[n]]_vars


-----------------------------------------------------------------------------
(* The strategies called directly, on Series that carry the columns they   *)
(* read.  Windows are short enough to fill within MaxLen bars; thresholds  *)
(* are the defaults of the parameter classes.                              *)

SignalStrategies ==
    { [name |-> "ma_crossover", params |-> [fast |-> 1, slow |-> 2]],
      [name |-> "rsi_reversion",
       params |-> [period |-> 1, buy_threshold |-> RSI_buy_threshold,
                   sell_threshold |-> RSI_sell_threshold]],
      [name |-> "mean_reversion_volatility",
       params |-> [bb_period |-> 3, bb_std |-> SCALE, rsi_period |-> 1,
                   rsi_oversold |-> 35 * SCALE, rsi_overbought |-> 65 * SCALE]],
      [name |-> "leader_momentum_drawdown",
       params |-> [momentum_period |-> 1, stop_loss |-> 0 - 800,
                   market_cap_min |-> 500]],
      [name |-> "leader_valuation_weight",
       params |-> [market_cap_min |-> 1000, pe_cheap |-> 15, pe_expensive |-> 40]],
      [name |-> "vol_target_multi_factor",
       params |-> [vol_target |-> 1500, momentum_period |-> 1]] }

\* the values a bar takes in the columns the strategy reads; the other
\* columns are held fixed
SignalBars(strat) ==
    LET leader     == strat.name \in {"leader_momentum_drawdown", "leader_valuation_weight"}
        valuation  == strat.name = "leader_valuation_weight"
        vol_sizing == strat.name = "vol_target_multi_factor"
    IN  { [close |-> c, total_mv |-> mv, pe |-> pe, volatility |-> vol] :
            c   \in IF valuation THEN {10} ELSE Prices,
            mv  \in IF leader THEN {400, 2000} ELSE {2000},
            pe  \in IF valuation THEN {10, 20, 50} ELSE {20},
            vol \in IF vol_sizing THEN {0, 1000, 3000} ELSE {1000} }

\* every Series of at most MaxLen such bars, on consecutive days
SignalInputs(strat) ==
    UNION { { Force([i \in 1..n |->
                [dt |-> i, close |-> bars[i].close, total_mv |-> bars[i].total_mv,
                 pe |-> bars[i].pe, volatility |-> bars[i].volatility]]) :
              bars \in [1..n -> SignalBars(strat)] } : n \in 0..MaxLen }

\* strategy.generate_signals(d)
GenerateSignals ==
    /\ pc = "idle"
    /\ \E d \in SignalInputs(strategy) :
          /\ given' = d
          /\ signals' = generate_signals(strategy, d)
    /\ pc' = "signalled"
    /\ UNCHANGED <<registry, engine, strategy, df, results, genCalls, metrics>>
    /\ UNCHANGED storeVars
    /\ UNCHANGED dataVars
    /\ UNCHANGED callerVars

InitSignals ==
    /\ registry = LoadedRegistry
    /\ engine = [initial_cash |-> DefaultCash, commission |-> DefaultCommission,
                 slippage |-> DefaultSlippage]
    /\ strategy \in SignalStrategies
    /\ pc = "idle"
    /\ given = <<>>
    /\ df = <<>>
    /\ results = <<>>
    /\ genCalls = FALSE
    /\ metrics = EmptyMetrics
    /\ signals = <<>>
    /\ now = 0
    /\ files = EmptyDirectory
    /\ nSaves = 0
    /\ listing = NothingListed
    /\ saved = NothingSaved
    /\ DataAtRest
    /\ CallersAtRest

NextSignals == GenerateSignals

SpecSignals == InitSignals /\ [][NextSignals]_vars

\* C14: generate_signals returns one value per input bar, on the index of
\* the input, and every value lies in [0, 1].
ValidPositionSeries ==
    pc = "signalled" =>
        /\ DOMAIN signals = DOMAIN given
        /\ \A i \in DOMAIN signals : 0 <= signals[i] /\ signals[i] <= SCALE

\* the volatility-target strategy has sized a bar strictly between 0 and 1,
\* and clipped another bar to 1
ValidPositionWitness ==
    /\ pc = "signalled"
    /\ strategy.name = "vol_target_multi_factor"
    /\ \E i \in DOMAIN signals : 0 < signals[i] /\ signals[i] < SCALE
    /\ \E i \in DOMAIN signals : signals[i] = SCALE /\ given[i].volatility = 1000


\* the strategies that carry a holding flag from bar to bar
HoldingFlagNames ==
    {"rsi_reversion", "mean_reversion_volatility", "leader_momentum_drawdown"}

\* the entry condition of the strategy on bar i of d, as its loop tests it
EntryCondition(strat, d, i) ==
    CASE strat.name = "rsi_reversion" ->
            LET rsi == RSI(d, strat.params.period)
            IN  rsi[i] # NaN /\ rsi[i] < strat.params.buy_threshold
      [] strat.name = "mean_reversion_volatility" ->
            LET rsi   == RSI(d, strat.params.rsi_period)
                lower == BollingerBand(d, strat.params, 0 - 1)
            IN  /\ lower[i] # NaN /\ d[i].close * SCALE < lower[i]
                /\ rsi[i] # NaN /\ rsi[i] < strat.params.rsi_oversold
      [] strat.name = "leader_momentum_drawdown" ->
            /\ is_leader(d, strat.params)[i]
            /\ momentum(d, strat.params.momentum_period)[i]
            /\ drawdown_ok(d, strat.params)[i]
      [] OTHER -> FALSE

\* the exit condition of the strategy on bar i of d, as its loop tests it
ExitCondition(strat, d, i) ==
    CASE strat.name = "rsi_reversion" ->
            LET rsi == RSI(d, strat.params.period)
            IN  rsi[i] # NaN /\ rsi[i] > strat.params.sell_threshold
      [] strat.name = "mean_reversion_volatility" ->
            LET rsi   == RSI(d, strat.params.rsi_period)
                upper == BollingerBand(d, strat.params, 1)
            IN  \/ upper[i] # NaN /\ d[i].close * SCALE > upper[i]
                \/ rsi[i] # NaN /\ rsi[i] > strat.params.rsi_overbought
      [] strat.name = "leader_momentum_drawdown" ->
            ~drawdown_ok(d, strat.params)[i]
      [] OTHER -> FALSE

\* the holding state before bar i: FLAT before the first bar, afterwards the
\* position emitted for the bar before
StateBefore(sig, i) == IF i = 1 THEN 0 ELSE sig[i - 1]

\* C15: the position of a holding-flag strategy is the state of a two-state
\* machine after each bar: it is 0 (FLAT) or 1 (HOLDING), starts FLAT, goes
\* from FLAT to HOLDING only on a bar whose entry condition holds and from
\* HOLDING to FLAT only on a bar whose exit condition holds, and the
\* positions of the first n bars are those of the Series cut after bar n,
\* hence the same for every Series that shares those n bars.
HoldingFlagMachine ==
    (pc = "signalled" /\ strategy.name \in HoldingFlagNames) =>
        /\ \A i \in DOMAIN signals :
              /\ signals[i] \in {0, SCALE}
              /\ (StateBefore(signals, i) = 0 /\ signals[i] = SCALE)
                    => EntryCondition(strategy, given, i)
              /\ (StateBefore(signals, i) = SCALE /\ signals[i] = 0)
                    => ExitCondition(strategy, given, i)
        /\ \A n \in 1..Len(given) :
              generate_signals(strategy, SubSeq(given, 1, n)) = SubSeq(signals, 1, n)

\* a holding-flag strategy has entered on one bar and left on a later one
HoldingFlagWitness ==
    /\ pc = "signalled"
    /\ strategy.name \in HoldingFlagNames
    /\ \E i, j \in DOMAIN signals :
          /\ i < j
          /\ StateBefore(signals, i) = 0 /\ signals[i] = SCALE
          /\ StateBefore(signals, j) = SCALE /\ signals[j] = 0


-----------------------------------------------------------------------------
(* The enrichment of a Series with fundamental disclosures.                *)

\* self.add_fundamental_indicators(symbol, df), the upstream source
\* answering with the table fin
AddFundamentalIndicators ==
    /\ pc = "idle"
    /\ enriched' = add_fundamental_indicators(given, fin)
    /\ pc' = "enriched"
    /\ UNCHANGED <<registry, engine, strategy, given, df, results, genCalls, metrics,
                   signals>>
    /\ UNCHANGED storeVars
    /\ UNCHANGED <<fin, call, cache, first>>
    /\ UNCHANGED callerVars

InitEnrich ==
    /\ registry = LoadedRegistry
    /\ engine = [initial_cash |-> DefaultCash, commission |-> DefaultCommission,
                 slippage |-> DefaultSlippage]
    /\ strategy = [name |-> "ma_crossover", params |-> [fast |-> 1, slow |-> 2]]
    /\ pc = "idle"
    /\ given \in SeriesSet
    /\ df = <<>>
    /\ results = <<>>
    /\ genCalls = FALSE
    /\ metrics = EmptyMetrics
    /\ signals = <<>>
    /\ now = 0
    /\ files = EmptyDirectory
    /\ nSaves = 0
    /\ listing = NothingListed
    /\ saved = NothingSaved
    /\ fin \in FinTables
    /\ enriched = <<>>
    /\ CallersAtRest
    /\ call = [p \in Procs |-> IdleFrame]
    /\ cache = EmptyCache
    /\ first = [k \in Keys |-> <<>>]

NextEnrich == AddFundamentalIndicators

SpecEnrich == InitEnrich /\ [][NextEnrich]_vars

\* the disclosures dated on or before bar i
PriorDisclosures(i) == {j \in DOMAIN fin : fin[j].report_date <= given[i].dt}

\* the most recent of them
LatestPrior(i) ==
    CHOOSE j \in PriorDisclosures(i) :
        \A k \in PriorDisclosures(i) : fin[k].report_date <= fin[j].report_date

\* C20: after enrichment every bar carries the eps and roe of the most
\* recent disclosure dated on or before the bar, and the pe computed from
\* that eps; a bar that no disclosure precedes carries the neutral default 0.
AsOfBackward ==
    pc = "enriched" =>
        \A i \in DOMAIN enriched :
            IF PriorDisclosures(i) = {}
            THEN enriched[i].eps = 0 /\ enriched[i].roe = 0 /\ enriched[i].pe = 0
            ELSE /\ enriched[i].eps = fin[LatestPrior(i)].eps
                 /\ enriched[i].roe = fin[LatestPrior(i)].roe
                 /\ enriched[i].pe = (given[i].close * SCALE) \div fin[LatestPrior(i)].eps


-----------------------------------------------------------------------------
(* The provider serving callers that run at the same time.  A call is a    *)
(* sequence of steps: it enters the retry wrapper, the wrapper invokes     *)
(* fetch_akshare_data once per step, and a fetch that misses the cache     *)
(* starts writing the cache file and completes it in a later step.  The    *)
(* test of the cache file, the upstream request and the creation of the    *)
(* file are one step.                                                      *)

\* get_data hands `fetched` to its caller, enriched when asked to; the first
\* non-empty Series returned for the query is remembered
GetDataReturns(p, f, fetched) ==
    \E fin_df \in ProviderFinTables :
        LET g == get_data_returns(f, fetched, fin_df)
        IN  /\ call' = [call EXCEPT ![p] = g]
            /\ first' = IF /\ g.pc = "returned"
                           /\ g.returned.rows # <<>>
                           /\ first[f.key] = <<>>
                        THEN [first EXCEPT ![f.key] = g.returned.rows]
                        ELSE first

\* a caller calls get_data(symbol, freq, adjust, start_date, end_date,
\* add_indicators) and enters the wrapper of fetch_akshare_data
GetData(p) ==
    /\ call[p].pc = "idle"
    /\ \E k \in Keys, add_indicators \in BOOLEAN :
          call' = [call EXCEPT ![p] = retry_enter(k, add_indicators, first[k] # <<>>)]
    /\ UNCHANGED <<fin, enriched, cache, first>>
    /\ UNCHANGED engineVars
    /\ UNCHANGED storeVars
    /\ UNCHANGED callerVars

\* one turn of the wrapper's loop: fetch_akshare_data is invoked and returns
\* from the cache, raises, returns no rows, or starts writing the cache file
Attempt(p) ==
    LET f    == call[p]
        path == get_cache_path(f.key)
        g    == [f EXCEPT !.attempts = @ + 1]
    IN  /\ f.pc = "try"
        /\ IF f.retries >= max_retries
           THEN GetDataReturns(p, f, None) /\ UNCHANGED cache
           ELSE IF path \in DOMAIN cache
           THEN IF cache[path].complete
                THEN /\ GetDataReturns(p, [g EXCEPT !.observed = "complete"],
                                       DataFrame(cache[path].rows))
                     /\ UNCHANGED cache
                ELSE /\ call' = [call EXCEPT ![p] =
                            retry_on_exception([g EXCEPT !.observed = "partial"],
                                               "ArrowInvalid")]
                     /\ UNCHANGED <<cache, first>>
           ELSE LET h == [g EXCEPT !.requests = @ + 1]
                IN  \/ \E e \in UpstreamErrors :
                          /\ call' = [call EXCEPT ![p] = retry_on_exception(h, e)]
                          /\ UNCHANGED <<cache, first>>
                    \/ GetDataReturns(p, h, DataFrame(<<>>)) /\ UNCHANGED cache
                    \/ \E raw \in UpstreamRows :
                          /\ call' = [call EXCEPT ![p] =
                                        [h EXCEPT !.df = normalize(raw), !.pc = "writing"]]
                          /\ cache' = [q \in DOMAIN cache \cup {path} |->
                                         IF q = path
                                         THEN [complete |-> FALSE, rows |-> normalize(raw)]
                                         ELSE cache[q]]
                          /\ UNCHANGED first
        /\ UNCHANGED <<fin, enriched>>
        /\ UNCHANGED engineVars
        /\ UNCHANGED storeVars
        /\ UNCHANGED callerVars

\* df.to_parquet(cache_path) returns: the file is complete, and
\* fetch_akshare_data returns df
FinishWrite(p) ==
    LET f    == call[p]
        path == get_cache_path(f.key)
    IN  /\ f.pc = "writing"
        /\ cache' = [cache EXCEPT ![path] = [complete |-> TRUE, rows |-> f.df]]
        /\ GetDataReturns(p, f, DataFrame(f.df))
        /\ UNCHANGED <<fin, enriched>>
        /\ UNCHANGED engineVars
        /\ UNCHANGED storeVars
        /\ UNCHANGED callerVars

\* the caller goes on with what get_data returned or raised
TakeResult(p) ==
    /\ call[p].pc \in {"returned", "raised"}
    /\ call' = [call EXCEPT ![p] = IdleFrame]
    /\ UNCHANGED <<fin, enriched, cache, first>>
    /\ UNCHANGED engineVars
    /\ UNCHANGED storeVars
    /\ UNCHANGED callerVars

InitData == InitTrend

NextData == \E p \in Procs : GetData(p) \/ Attempt(p) \/ FinishWrite(p) \/ TakeResult(p)

\* a call that was entered runs on: an invocation of the fetch returns or
\* raises, a sleep ends, a write completes
FairData == \A p \in Procs : WF_vars(Attempt(p)) /\ WF_vars(FinishWrite(p))

SpecData == InitData /\ [][NextData]_vars /\ FairData

\* C16: get_data never returns an empty Series: when the upstream source
\* has no rows the call ends by raising.
NeverReturnsEmpty ==
    \A p \in Procs :
        call[p].pc = "returned" => call[p].returned.rows # <<>>

\* the sleeps the wrapper has taken after k failures: delay * backoff^(i-1)
\* after the i-th, none after the last of max_retries
ExpectedSleeps(k) ==
    LET n == IF k >= max_retries THEN max_retries - 1 ELSE k
        pow[i \in 0..max_retries] == IF i = 0 THEN 1 ELSE backoff * pow[i - 1]
    IN  Force([i \in 1..n |-> delay * pow[i - 1]])

\* what holds of a frame of the wrapper at every moment
RetryPolicy(f) ==
    /\ f.attempts <= max_retries
    /\ f.retries = Len(f.errors)
    /\ f.slept = ExpectedSleeps(f.retries)
    /\ f.pc = "try" => f.retries < max_retries /\ f.attempts = f.retries
    /\ f.pc = "writing" => f.retries < max_retries /\ f.attempts = f.retries + 1
    /\ f.pc = "returned" =>
          /\ f.fetched.kind = "DataFrame"
          /\ f.returned.kind = "DataFrame"
          /\ f.attempts = f.retries + 1
    /\ f.pc = "raised" =>
          /\ f.attempts = max_retries
          /\ f.retries = max_retries
          /\ f.raised = f.errors[max_retries]

\* C17: the wrapper invokes the fetch at most max_retries = 3 times, returns
\* what the first attempt that does not raise returned, sleeps 1s and 2s
\* after the first and second failure and not after the third, re-raises the
\* third exception, never returns None, and every call that entered it
\* returns or raises.
RetryWrapper ==
    /\ [](\A p \in Procs : RetryPolicy(call[p]))
    /\ \A p \in Procs :
          (call[p].pc = "try") ~> (call[p].pc \in {"returned", "raised"})

\* a call has raised after three failed attempts and sleeps of 1s and 2s,
\* while another returned on its second attempt after one sleep
RetryWitness ==
    \E p, q \in Procs :
        /\ call[p].pc = "raised" /\ call[p].attempts = 3 /\ call[p].slept = <<1, 2>>
        /\ call[q].pc = "returned" /\ call[q].attempts = 2 /\ call[q].slept = <<1>>

\* C18: a call made after a non-empty Series was returned for its query
\* returns that Series and makes no upstream request, and queries that
\* differ have cache files that differ.
CacheHit ==
    /\ \A p \in Procs :
          (call[p].pc = "returned" /\ call[p].hit) =>
              /\ call[p].returned.rows = first[call[p].key]
              /\ call[p].requests = 0
    /\ \A k1, k2 \in Keys : get_cache_path(k1) = get_cache_path(k2) => k1 = k2

\* C19: no call reads a cache file that is partially written.
NoPartialRead ==
    \A p \in Procs : call[p].observed # "partial"


-----------------------------------------------------------------------------
(* Further properties of the result store, the strategies and the engine. *)

\* C26: a listing of the whole store made after a save puts the record of
\* that save, the most recent one, ahead of every record written by an
\* earlier save.
MostRecentFirst ==
    (nSaves > 0 /\ listing.saves = nSaves /\ listing.strategy_name = <<>>) =>
        /\ Len(listing.results) > 0
        /\ listing.results[1].strategy = saved.strategy_name
        /\ listing.results[1].timestamp = saved.timestamp
        /\ listing.results[1].run_id
              = run_id(saved.strategy_name, saved.params, saved.data_info)

\* C27: list_results(strategy_name) returns records of that strategy only.
ExactListing ==
    listing.strategy_name # <<>> =>
        \A i \in 1..Len(listing.results) :
            listing.results[i].strategy = listing.strategy_name

\* C28: leader_valuation_weight gives a leader bar weight 1.0 when pe is
\* below pe_cheap and weight 0.3 when pe is at or above pe_expensive, and
\* gives a bar that is not a leader bar weight 0.
ValuationWeights ==
    (pc = "signalled" /\ strategy.name = "leader_valuation_weight") =>
        \A i \in DOMAIN signals :
            IF given[i].total_mv > strategy.params.market_cap_min
            THEN /\ given[i].pe < strategy.params.pe_cheap => signals[i] = SCALE
                 /\ given[i].pe >= strategy.params.pe_expensive
                       => signals[i] = (3 * SCALE) \div 10
            ELSE signals[i] = 0


\* the positions a strategy may have held on the bar before
PositionLevels == {0, SCALE \div 5, SCALE \div 2, SCALE}

\* the positions of the run, with prev held on bar t - 1 instead
HeldWith(t, prev) ==
    Force([i \in 1..Len(results) |-> IF i = t - 1 THEN prev ELSE results[i].position])

\* the net return of bar t had prev been held on bar t - 1: same position
\* on bar t, same price move, another position change
NetWith(t, prev) == net_returns(engine, HeldWith(t, prev), given)[t]

\* C25 (cost monotonicity): for the position and the price move of bar t,
\* the net return of the bar does not increase as the size of the position
\* change increases; so no change of position gives more than zero change.
CostMonotone ==
    pc # "idle" =>
        \A t \in 2..Len(results) :
            /\ NetWith(t, results[t - 1].position) = results[t].daily_return
            /\ \A p1, p2 \in PositionLevels :
                  AbsVal(results[t].position - p1) <= AbsVal(results[t].position - p2)
                      => NetWith(t, p2) <= NetWith(t, p1)

\* a bar whose position changed at a cost returned less than it would have
\* with the position unchanged, under an engine that charges
CostMonotoneWitness ==
    /\ pc # "idle"
    /\ engine.commission + engine.slippage > 0
    /\ \E t \in 2..Len(results) :
          /\ results[t].position # results[t - 1].position
          /\ results[t].close # results[t - 1].close
          /\ results[t].daily_return < NetWith(t, results[t].position)

-----------------------------------------------------------------------------
(* Construction of a strategy: BaseStrategy.__init__ hands the params dict *)
(* to the strategy's parameter schema, a pydantic BaseModel, which         *)
(* validates each field in the library's default (lax) mode: a value that  *)
(* the declared type can be read from is converted, any other raises.      *)
(* A Python value is a record of its type and its content; a str is the    *)
(* sequence of its characters.                                             *)

PyInt(n) == [type |-> "int", value |-> n]
PyFloat(x) == [type |-> "float", value |-> x]
PyStr(s) == [type |-> "str", value |-> s]
PyBool(b) == [type |-> "bool", value |-> b]
PyNone == [type |-> "NoneType"]

Digits == <<"0", "1", "2", "3", "4", "5", "6", "7", "8", "9">>

is_digit(c) == \E d \in DOMAIN Digits : Digits[d] = c

digit_value(c) == (CHOOSE d \in DOMAIN Digits : Digits[d] = c) - 1

\* str.isdigit(): non-empty and digits only
isdigit(s) == Len(s) > 0 /\ \A i \in DOMAIN s : is_digit(s[i])

RECURSIVE int_of_digits(_)
int_of_digits(s) ==
    IF Len(s) = 0 THEN 0
    ELSE 10 * int_of_digits(SubSeq(s, 1, Len(s) - 1)) + digit_value(s[Len(s)])

RECURSIVE power_of_ten(_)
power_of_ten(n) == IF n = 0 THEN 1 ELSE 10 * power_of_ten(n - 1)

\* the places of "." in a str
points(s) == {i \in DOMAIN s : s[i] = "."}

\* a str that reads as a decimal number: digits, one point, digits
is_decimal(s) ==
    /\ Cardinality(points(s)) = 1
    /\ LET dot == CHOOSE i \in points(s) : TRUE
       IN /\ isdigit(SubSeq(s, 1, dot - 1))
          /\ isdigit(SubSeq(s, dot + 1, Len(s)))
          /\ Len(s) - dot <= 4

\* float(s) of such a str
float_of_decimal(s) ==
    LET dot == CHOOSE i \in points(s) : TRUE
        frac == SubSeq(s, dot + 1, Len(s))
    IN int_of_digits(SubSeq(s, 1, dot - 1)) * SCALE
       + int_of_digits(frac) * (SCALE \div power_of_ten(Len(frac)))

\* the strs the library reads a bool from
TrueStrings == {<<"1">>, <<"t">>, <<"y">>, <<"o", "n">>, <<"y", "e", "s">>,
                <<"t", "r", "u", "e">>}
FalseStrings == {<<"0">>, <<"f">>, <<"n">>, <<"n", "o">>, <<"o", "f", "f">>,
                 <<"f", "a", "l", "s", "e">>}

Valid(x) == [ok |-> TRUE, value |-> x]
Invalid == [ok |-> FALSE]

\* validation of a field annotated int
validate_int(v) ==
    CASE v.type = "int" -> Valid(v.value)
      [] v.type = "bool" -> Valid(IF v.value THEN 1 ELSE 0)
      [] v.type = "float" ->
            IF v.value % SCALE = 0 THEN Valid(v.value \div SCALE) ELSE Invalid
      [] v.type = "str" ->
            IF isdigit(v.value) THEN Valid(int_of_digits(v.value)) ELSE Invalid
      [] OTHER -> Invalid

\* validation of a field annotated float
validate_float(v) ==
    CASE v.type = "float" -> Valid(v.value)
      [] v.type = "int" -> Valid(v.value * SCALE)
      [] v.type = "bool" -> Valid(IF v.value THEN SCALE ELSE 0)
      [] v.type = "str" ->
            IF isdigit(v.value) THEN Valid(int_of_digits(v.value) * SCALE)
            ELSE IF is_decimal(v.value) THEN Valid(float_of_decimal(v.value))
            ELSE Invalid
      [] OTHER -> Invalid

\* validation of a field annotated bool
validate_bool(v) ==
    CASE v.type = "bool" -> Valid(v.value)
      [] v.type = "int" -> IF v.value \in {0, 1} THEN Valid(v.value = 1) ELSE Invalid
      [] v.type = "float" ->
            IF v.value \in {0, SCALE} THEN Valid(v.value = SCALE) ELSE Invalid
      [] v.type = "str" ->
            IF v.value \in TrueStrings THEN Valid(TRUE)
            ELSE IF v.value \in FalseStrings THEN Valid(FALSE)
            ELSE Invalid
      [] OTHER -> Invalid

\* the library's validation of one field
validate(annotation, v) ==
    CASE annotation = "int" -> validate_int(v)
      [] annotation = "float" -> validate_float(v)
      [] annotation = "bool" -> validate_bool(v)

Field(annotation, default) == [annotation |-> annotation, default |-> default]

MA_Crossover_Params ==
    [fast |-> Field("int", 10), slow |-> Field("int", 30)]

RSI_Params ==
    [period |-> Field("int", 14), buy_threshold |-> Field("float", 30 * SCALE),
     sell_threshold |-> Field("float", 70 * SCALE)]

Reversion_Value_Industry_Params ==
    [reversion_period |-> Field("int", 20), pe_max |-> Field("float", 30 * SCALE),
     idx_trend_filter |-> Field("bool", TRUE)]

\* the strategy classes constructed
Classes == {"ma_crossover", "rsi_reversion", "reversion_value_industry"}

\* cls.get_params_class()
get_params_class(cls) ==
    CASE cls = "ma_crossover" -> MA_Crossover_Params
      [] cls = "rsi_reversion" -> RSI_Params
      [] cls = "reversion_value_industry" -> Reversion_Value_Industry_Params

\* the schema's constructor called with the keyword arguments kwargs: a
\* field handed in is validated, a field left out takes its default, a
\* keyword that names no field is ignored
StrategyParams(schema, kwargs) ==
    LET handed == DOMAIN kwargs \cap DOMAIN schema
        bad == {k \in handed : ~validate(schema[k].annotation, kwargs[k]).ok}
    IN IF bad # {}
       THEN [raised |-> "ValidationError", fields |-> bad]
       ELSE [raised |-> "nothing",
             fields |-> [k \in DOMAIN schema |->
                            IF k \in handed
                            THEN validate(schema[k].annotation, kwargs[k]).value
                            ELSE schema[k].default]]

\* BaseStrategy.__init__(self, params): None stands for the empty dict
BaseStrategy_init(cls, params) ==
    LET kwargs == IF params = PyNone THEN <<>> ELSE params
        made == StrategyParams(get_params_class(cls), kwargs)
    IN IF made.raised # "nothing"
       THEN [pc |-> "raised", cls |-> cls, handed |-> kwargs, error |-> made.raised,
             used |-> FALSE]
       ELSE [pc |-> "constructed", cls |-> cls, handed |-> kwargs,
             params |-> made.fields, used |-> FALSE]

\* the values handed in for a parameter
PyValues ==
    { PyInt(5), PyInt(1), PyFloat(5 * SCALE), PyFloat((5 * SCALE) \div 2),
      PyStr(<<"5">>), PyStr(<<"2", ".", "5">>), PyStr(<<"f", "a", "s", "t">>),
      PyBool(TRUE), PyNone }

\* the params dicts handed to the constructor of cls: any of its fields,
\* each with any of the values
ParamDicts(cls) ==
    UNION { [keys -> PyValues] : keys \in SUBSET DOMAIN get_params_class(cls) }

\* strategy_cls(params)
Construct ==
    /\ ctor.pc = "idle"
    /\ \E cls \in Classes :
          \E params \in ParamDicts(cls) \cup {PyNone} :
             ctor' = BaseStrategy_init(cls, params)
    /\ UNCHANGED <<answers, bt, sweep>>
    /\ UNCHANGED engineVars
    /\ UNCHANGED storeVars
    /\ UNCHANGED dataVars

\* the caller hands the constructed strategy to engine.run, which calls
\* its generate_signals; there is no strategy to hand over when the
\* constructor raised
UseStrategy ==
    /\ ctor.pc = "constructed"
    /\ ~ctor.used
    /\ ctor' = [ctor EXCEPT !.used = TRUE]
    /\ UNCHANGED <<answers, bt, sweep>>
    /\ UNCHANGED engineVars
    /\ UNCHANGED storeVars
    /\ UNCHANGED dataVars

InitConstruct == InitTrend

NextConstruct == Construct \/ UseStrategy

SpecConstruct == InitConstruct /\ [][NextConstruct]_vars

\* isinstance(v, annotation) for the value v: a bool is an int, and an
\* int is accepted where a float is declared
is_instance(v, annotation) ==
    \/ v.type = annotation
    \/ annotation = "int" /\ v.type = "bool"
    \/ annotation = "float" /\ v.type \in {"int", "bool"}

\* C24: constructing a registered strategy with a parameter value of the
\* wrong type raises in the constructor, so that neither generate_signals
\* nor the engine is ever called with it, and constructing it with no
\* parameters succeeds with the defaults of the schema
WrongTypeFailsAtConstruction ==
    ctor.pc # "idle" =>
        LET schema == get_params_class(ctor.cls)
        IN /\ (\E k \in DOMAIN ctor.handed :
                  ~is_instance(ctor.handed[k], schema[k].annotation))
                 => ctor.pc = "raised" /\ ~ctor.used
           /\ DOMAIN ctor.handed = {} =>
                 /\ ctor.pc = "constructed"
                 /\ \A k \in DOMAIN schema : ctor.params[k] = schema[k].default

-----------------------------------------------------------------------------
(* The orchestrator's sweep over STRATEGY_REGISTRY (quant_agent_node): the *)
(* engine and the store are created, every registered strategy is built,   *)
(* run, measured and saved inside one try block, and the candidates are    *)
(* ranked by Sharpe ratio.  Which call raises, and the metrics of a run,   *)
(* are inputs.                                                             *)

\* STRATEGY_REGISTRY.items(), in the order of registration
STRATEGY_ITEMS == <<"ma_crossover", "rsi_reversion", "macd_trend">>

\* the calls of the try block that can raise, in the order they are made;
\* generate_signals is called by engine.run
TrySteps == <<"construct", "generate_signals", "run", "metrics", "save", "summary">>

\* the Sharpe ratios a run can be measured with
Sharpes == {0 - SCALE, 0, 2 * SCALE}

\* x["metrics"].get("sharpe", 0)
get_sharpe(x) == IF "sharpe" \in DOMAIN x.metrics THEN x.metrics.sharpe ELSE 0

\* the except clause around the whole node: the sweep is given up and an
\* error is returned in place of the candidates
node_failed(sw) == [sw EXCEPT !.pc = "returned", !.error = "quant analysis failed"]

\* engine = VectorizedEngine(); persistence = BacktestPersistence(), made
\* before the loop and outside its try block
sweep_enter(store_created) ==
    LET sw == [pc |-> "loop", store_created |-> store_created, i |-> 1,
               backtest_results |-> <<>>, trace |-> <<>>, candidates |-> <<>>,
               error |-> ""]
    IN IF store_created THEN sw ELSE node_failed(sw)

\* the end of the try block: the candidate is appended
strategy_completed(sw, name, m) ==
    [sw EXCEPT !.backtest_results = Append(@, [name |-> name, metrics |-> m]),
               !.trace = Append(@, [name |-> name, raised |-> "nothing", metrics |-> m]),
               !.i = @ + 1]

\* a handler that lets the failure of one strategy end the sweep
strategy_failed_abort(sw, name, step, m) ==
    node_failed([sw EXCEPT !.trace = Append(@, [name |-> name, raised |-> step,
                                                 metrics |-> m])])

\* except Exception as e: print(...), and the loop goes on
strategy_failed(sw, name, step, m) ==
    [sw EXCEPT !.trace = Append(@, [name |-> name, raised |-> step, metrics |-> m]),
               !.i = @ + 1]

\* one pass of the loop body for the strategy name: the call named raises
\* raises, or none does ("nothing"); m is what calculate_metrics returns
\* when it is reached
try_strategy(sw, name, raises, m) ==
    LET reached(step) == \A k \in DOMAIN TrySteps :
                            TrySteps[k] = raises =>
                               \E j \in k + 1..Len(TrySteps) : TrySteps[j] = step
        measured == IF raises = "nothing" \/ reached("metrics") THEN m ELSE [sharpe |-> 0]
    IN IF raises = "nothing"
       THEN strategy_completed(sw, name, m)
       ELSE strategy_failed(sw, name, raises, measured)

\* sorted(items, key=get_sharpe, reverse=True): stable, highest first
RECURSIVE sorted_by_sharpe(_)
sorted_by_sharpe(items) ==
    IF Len(items) <= 1 THEN items
    ELSE LET rest == sorted_by_sharpe(SubSeq(items, 1, Len(items) - 1))
             x == items[Len(items)]
             ahead == {k \in DOMAIN rest : get_sharpe(rest[k]) >= get_sharpe(x)}
             n == Cardinality(ahead)
         IN SubSeq(rest, 1, n) \o <<x>> \o SubSeq(rest, n + 1, Len(rest))

\* the node is entered with a usable Series
EnterSweep ==
    /\ sweep.pc = "idle"
    /\ \E store_created \in BOOLEAN : sweep' = sweep_enter(store_created)
    /\ UNCHANGED <<ctor, answers, bt>>
    /\ UNCHANGED engineVars
    /\ UNCHANGED storeVars
    /\ UNCHANGED dataVars

\* one pass of the loop
EvaluateStrategy ==
    /\ sweep.pc = "loop"
    /\ sweep.i <= Len(STRATEGY_ITEMS)
    /\ \E raises \in {TrySteps[k] : k \in DOMAIN TrySteps} \cup {"nothing"} :
          \E s \in Sharpes :
             sweep' = try_strategy(sweep, STRATEGY_ITEMS[sweep.i], raises, [sharpe |-> s])
    /\ UNCHANGED <<ctor, answers, bt>>
    /\ UNCHANGED engineVars
    /\ UNCHANGED storeVars
    /\ UNCHANGED dataVars

\* after the loop: the candidates are ranked and returned
ReturnCandidates ==
    /\ sweep.pc = "loop"
    /\ sweep.i > Len(STRATEGY_ITEMS)
    /\ sweep' = [sweep EXCEPT !.pc = "returned",
                              !.candidates = sorted_by_sharpe(sweep.backtest_results)]
    /\ UNCHANGED <<ctor, answers, bt>>
    /\ UNCHANGED engineVars
    /\ UNCHANGED storeVars
    /\ UNCHANGED dataVars

InitSweep == InitTrend

NextSweep == EnterSweep \/ EvaluateStrategy \/ ReturnCandidates

SpecSweep == InitSweep /\ [][NextSweep]_vars

\* the names among the returned candidates
CandidateNames == {sweep.candidates[k].name : k \in DOMAIN sweep.candidates}

\* every registered strategy was evaluated, in order
AllEvaluated ==
    /\ Len(sweep.trace) = Len(STRATEGY_ITEMS)
    /\ \A k \in DOMAIN sweep.trace : sweep.trace[k].name = STRATEGY_ITEMS[k]

\* C22: a failure of one strategy's construction, signal generation, engine
\* run or metrics computation is caught for that strategy alone: the sweep
\* returns candidates, every registered strategy was evaluated, a strategy
\* that failed there is no candidate and each strategy that completed is
\* one candidate
FailureIsolated ==
    (sweep.pc = "returned" /\ sweep.store_created) =>
        /\ sweep.error = ""
        /\ AllEvaluated
        /\ \A k \in DOMAIN sweep.trace :
              /\ sweep.trace[k].raised \in {"construct", "generate_signals", "run", "metrics"}
                    => sweep.trace[k].name \notin CandidateNames
              /\ sweep.trace[k].raised = "nothing"
                    => Cardinality({j \in DOMAIN sweep.candidates :
                                       sweep.candidates[j] = [name |-> sweep.trace[k].name,
                                                              metrics |-> sweep.trace[k].metrics]}) = 1
        /\ Len(sweep.candidates) = Cardinality(CandidateNames)

\* a sweep in which a strategy failed in its run and a later one completed
FailureIsolatedWitness ==
    /\ sweep.pc = "returned"
    /\ sweep.store_created
    /\ \E k \in DOMAIN sweep.trace :
          /\ sweep.trace[k].raised = "run"
          /\ \E j \in k + 1..Len(sweep.trace) :
                /\ sweep.trace[j].raised = "nothing"
                /\ sweep.trace[j].name \in CandidateNames

\* C23: persistence is best-effort: when the store cannot be created, or
\* save_result raises for a strategy that was run and measured, the sweep
\* still returns candidates, every registered strategy was evaluated and
\* that strategy's metrics are among the candidates
PersistenceBestEffort ==
    sweep.pc = "returned" =>
        /\ sweep.error = ""
        /\ AllEvaluated
        /\ \A k \in DOMAIN sweep.trace :
              sweep.trace[k].raised = "save" =>
                 \E j \in DOMAIN sweep.candidates :
                    sweep.candidates[j] = [name |-> sweep.trace[k].name,
                                           metrics |-> sweep.trace[k].metrics]

-----------------------------------------------------------------------------
(* BacktestEngine.run_backtest (src/tools/backtest_engine.py): one         *)
(* position is bought near the buy price and sold at the stop loss, the    *)
(* target or the end of the data.  Closing prices are whole price units;   *)
(* cash, thresholds, commission and position_size are fixed-point numbers  *)
(* in units of 1/SCALE, so that every product below is exact.              *)

\* most bars of a stock_data frame
MaxBars == 3

\* commission: float = 0.0003
BacktestCommission == 3

\* x * y of two fixed-point numbers, y >= 0, rounded down
fp_mul(x, y) == (x \div SCALE) * y + ((x % SCALE) * y) \div SCALE

\* int(x / y): the quotient cut towards zero
int_quotient(x, y) == IF x >= 0 THEN x \div y ELSE 0 - ((0 - x) \div y)

\* a threshold a signal leaves out (None): "not buy_price" is true of it
NoPrice == 0

\* the frames handed in: up to MaxBars rows of 日期 (riqi) and 收盘
\* (shoupan), dated in ascending or in descending order
StockData ==
    UNION { { [i \in 1..n |-> [riqi |-> i, shoupan |-> c[i]]] : c \in [1..n -> {9, 10, 12}] }
            \cup
            { [i \in 1..n |-> [riqi |-> n + 1 - i, shoupan |-> c[i]]] : c \in [1..n -> {9, 10, 12}] }
            : n \in 0..MaxBars }

\* the engines built and the signals handed in
BacktestInputs ==
    [stock_data : StockData,
     initial_capital : {100 * SCALE, 1000 * SCALE},
     commission : {0, BacktestCommission},
     position_size : {SCALE \div 2, SCALE},
     buy_price : {NoPrice, 10 * SCALE},
     sell_price : {NoPrice, 12 * SCALE}]

\* lines 122-153: the data is sorted by date, the cash is the initial
\* capital and the thresholds left out are derived from the buy price
run_backtest_enter(in) ==
    IF Len(in.stock_data) = 0
    THEN [pc |-> "raised", capital |-> in.initial_capital, trades |-> <<>>]
    ELSE LET stock_data == sort_values(in.stock_data, "riqi")
             buy_price == IF in.buy_price = NoPrice
                          THEN stock_data[1].shoupan * SCALE ELSE in.buy_price
         IN [pc |-> "loop", stock_data |-> stock_data, idx |-> 1,
             commission |-> in.commission, position_size |-> in.position_size,
             capital |-> in.initial_capital, position |-> 0, in_position |-> FALSE,
             buy_price |-> buy_price, sell_price |-> in.sell_price,
             stop_loss |-> (buy_price * 95) \div 100,
             target_price |-> (buy_price * 110) \div 100,
             trades |-> <<>>]

\* lines 161-177: the buy of one row; each trade carries the cash balance
\* right after it
buy(b, close_price) ==
    IF ~b.in_position /\ b.buy_price # NoPrice
       /\ close_price * SCALE <= (b.buy_price * 102) \div 100
    THEN LET shares == int_quotient(fp_mul(b.capital, b.position_size),
                                    SCALE * close_price)
             cost == shares * close_price * (SCALE + b.commission)
         IN IF shares > 0
            THEN [b EXCEPT !.capital = @ - cost, !.position = shares,
                           !.in_position = TRUE,
                           !.trades = Append(@, [type |-> "buy", price |-> close_price,
                                                 shares |-> shares, amount |-> cost,
                                                 capital |-> b.capital - cost])]
            ELSE b
    ELSE b

\* revenue of selling the whole position, and the trade recorded
sell(b, close_price, reason) ==
    LET revenue == b.position * close_price * (SCALE - b.commission)
    IN [b EXCEPT !.capital = @ + revenue, !.position = 0, !.in_position = FALSE,
                 !.trades = Append(@, [type |-> "sell", price |-> close_price,
                                       shares |-> b.position, amount |-> revenue,
                                       reason |-> reason,
                                       capital |-> b.capital + revenue])]

\* lines 179-215: the sell of one row
sell_if_due(b, close_price) ==
    IF b.in_position
    THEN IF b.sell_price # NoPrice /\ close_price * SCALE >= b.sell_price
         THEN sell(b, close_price, "target_price")
         ELSE IF b.stop_loss # NoPrice /\ close_price * SCALE <= b.stop_loss
         THEN sell(b, close_price, "stop_loss")
         ELSE IF b.target_price # NoPrice /\ close_price * SCALE >= b.target_price
         THEN sell(b, close_price, "target_price")
         ELSE b
    ELSE b

\* one pass of the loop over the rows
backtest_row(b) ==
    LET close_price == b.stock_data[b.idx].shoupan
    IN [sell_if_due(buy(b, close_price), close_price) EXCEPT !.idx = @ + 1]

\* lines 227-260: a position still held is sold at the last close
backtest_end(b) ==
    LET last == b.stock_data[Len(b.stock_data)].shoupan
        closed == IF b.in_position THEN sell(b, last, "end_of_period") ELSE b
    IN [closed EXCEPT !.pc = "returned"]

\* BacktestEngine(initial_capital, commission).run_backtest(stock_data, signals)
RunBacktest ==
    /\ bt.pc = "idle"
    /\ \E in \in BacktestInputs : bt' = run_backtest_enter(in)
    /\ UNCHANGED <<ctor, sweep, answers>>
    /\ UNCHANGED engineVars
    /\ UNCHANGED storeVars
    /\ UNCHANGED dataVars

\* for idx, row in stock_data.iterrows()
BacktestRow ==
    /\ bt.pc = "loop"
    /\ bt.idx <= Len(bt.stock_data)
    /\ bt' = backtest_row(bt)
    /\ UNCHANGED <<ctor, sweep, answers>>
    /\ UNCHANGED engineVars
    /\ UNCHANGED storeVars
    /\ UNCHANGED dataVars

\* the loop is over
BacktestEnd ==
    /\ bt.pc = "loop"
    /\ bt.idx > Len(bt.stock_data)
    /\ bt' = backtest_end(bt)
    /\ UNCHANGED <<ctor, sweep, answers>>
    /\ UNCHANGED engineVars
    /\ UNCHANGED storeVars
    /\ UNCHANGED dataVars

InitBacktest == InitTrend

NextBacktest == RunBacktest \/ BacktestRow \/ BacktestEnd

SpecBacktest == InitBacktest /\ [][NextBacktest]_vars

\* C30: the cash balance of run_backtest is never negative: after every
\* buy and after every sell, capital >= 0
CapitalNeverNegative ==
    bt.pc # "idle" =>
        /\ bt.capital >= 0
        /\ \A k \in DOMAIN bt.trades : bt.trades[k].capital >= 0

-----------------------------------------------------------------------------
(* The three enrichment steps of get_data, each with its own upstream      *)
(* requests, any of which may raise or return an empty table.  A frame is  *)
(* a sequence of rows, a row a function from the column names it has.      *)

\* the window of the index average (250 bars), scaled to the index tables
\* of the model
IndexWindow == 2

\* df.columns of a frame with rows
columns(d) == DOMAIN d[1]

\* df[col] = s, for a Series s
assign(d, col, s) == Force([i \in 1..Len(d) |-> (col :> s[i]) @@ d[i]])

\* df[col] = v, for a scalar v
assign_scalar(d, col, v) == Force([i \in 1..Len(d) |-> (col :> v) @@ d[i]])

\* lines 194-242: the disclosures are merged as of each bar and the ratios
\* derived, nothing filled yet; an empty table adds no column
merge_fundamentals(d, fin_df) ==
    IF fin_df = <<>> THEN d
    ELSE LET sorted == sort_values(fin_df, "report_date")
             eps    == merge_asof(d, sorted, "eps")
             roe    == merge_asof(d, sorted, "roe")
         IN  assign(assign(assign(d, "eps", eps), "roe", roe),
                    "pe", price_earnings(d, eps))

\* line 270, the columns of the model among them
cols_to_fill == <<"pe", "roe", "total_mv", "eps", "dividend_yield", "idx_trend">>

\* lines 271-275, for the first n columns of cols_to_fill
RECURSIVE fill_columns(_, _)
fill_columns(d, n) ==
    IF n = 0 THEN d
    ELSE LET done == fill_columns(d, n - 1)
             col == cols_to_fill[n]
         IN IF col \in columns(done)
            THEN assign(done, col, final_fill(Column(done, col)))
            ELSE assign_scalar(done, col, 0)

\* an upstream request that raised, and one that returned table
Raised == [raised |-> TRUE, table |-> <<>>]
Returned(table) == [raised |-> FALSE, table |-> table]

\* DataManager.add_fundamental_indicators with its try block: fin_a is the
\* answer of stock_financial_abstract_ths, info the answer of
\* stock_individual_info_em (its rows 总股本 and 股息率, 0 when not there)
add_fundamental_indicators_try(d, fin_a, info) ==
    IF fin_a.raised THEN d
    ELSE LET merged == merge_fundamentals(d, fin_a.table)
         IN IF info.raised THEN merged
            ELSE LET total_shares == IF info.table = <<>> THEN 0
                                     ELSE info.table[1].total_shares
                     dividend_yield == IF info.table = <<>> THEN 0
                                       ELSE info.table[1].dividend_yield
                     valued == IF total_shares # 0
                               THEN assign(merged, "total_mv",
                                           Force([i \in 1..Len(d) |-> d[i].close * total_shares]))
                               ELSE merged
                     paid == IF "dividend_yield" \in columns(valued) THEN valued
                             ELSE assign_scalar(valued, "dividend_yield", dividend_yield)
                 IN fill_columns(paid, Len(cols_to_fill))

\* df["dt"].dt.to_period("M"): two bars to the month
month(dt) == (dt + 1) \div 2

\* DataManager.add_macro_indicators: pmi is the answer of
\* macro_china_pmi_yearly, one row to the month
add_macro_indicators(d, pmi) ==
    IF pmi.raised
    THEN (IF "pmi" \in columns(d) THEN d ELSE assign_scalar(d, "pmi", 50 * SCALE))
    ELSE IF pmi.table = <<>> THEN assign_scalar(d, "pmi", 50 * SCALE)
    ELSE LET merged == Force([i \in 1..Len(d) |->
                          LET rows == {j \in DOMAIN pmi.table :
                                          pmi.table[j].month = month(d[i].dt)}
                          IN IF rows = {} THEN NaN
                             ELSE pmi.table[CHOOSE j \in rows : TRUE].pmi])
         IN assign(d, "pmi", fillna(bfill(ffill(merged)), 50 * SCALE))

\* lines 139-144: the index table with its average and its trend flag
index_table(idx_df) ==
    LET idx_close == Force([j \in 1..Len(idx_df) |-> idx_df[j].close])
        idx_ma250 == rolling_mean(idx_close, IndexWindow)
    IN Force([j \in 1..Len(idx_df) |->
          [dt |-> idx_df[j].date, idx_close |-> idx_close[j], idx_ma250 |-> idx_ma250[j],
           idx_trend |-> IF idx_ma250[j] # NaN /\ idx_close[j] * SCALE > idx_ma250[j]
                         THEN 1 ELSE 0]])

\* the name of a column in the result of a merge: a column that both
\* frames have, and that is not the key, gets the suffix of its side
suffixed(col, shared, suffix) ==
    IF col \in shared
    THEN (CASE col = "idx_trend" /\ suffix = "_x" -> "idx_trend_x"
            [] col = "idx_trend" /\ suffix = "_y" -> "idx_trend_y")
    ELSE col

\* pd.merge(df, right, on="dt", how="left"), right with one row to the date
merge_left(d, right) ==
    LET left_cols == columns(d)
        right_cols == columns(right) \ {"dt"}
        shared == (left_cols \cap right_cols)
        out_left == {suffixed(c, shared, "_x") : c \in left_cols}
        out_right == {suffixed(c, shared, "_y") : c \in right_cols}
    IN Force([i \in 1..Len(d) |->
          LET rows == {j \in DOMAIN right : right[j].dt = d[i].dt}
          IN [c \in out_left \cup out_right |->
                IF c \in out_left
                THEN d[i][CHOOSE k \in left_cols : suffixed(k, shared, "_x") = c]
                ELSE IF rows = {} THEN NaN
                ELSE right[CHOOSE j \in rows : TRUE]
                          [CHOOSE k \in right_cols : suffixed(k, shared, "_y") = c]]])

\* DataManager.add_market_indicators: index is the answer of
\* stock_zh_index_daily.  The 20-bar window of the volatility and the
\* 60-bar window of its mean are longer than any Series of the model, so
\* both columns are missing on every bar before they are filled.
add_market_indicators(d, index) ==
    LET missing == Force([i \in 1..Len(d) |-> NaN])
        vol == assign(d, "volatility", fillna(bfill(ffill(missing)), SCALE \div 5))
        trended ==
            IF index.raised THEN assign_scalar(vol, "idx_trend", 1)
            ELSE IF index.table = <<>> THEN assign_scalar(vol, "idx_trend", 1)
            ELSE LET merged == merge_left(vol, index_table(index.table))
                 IN IF "idx_trend" \in columns(merged)
                    THEN assign(merged, "idx_trend",
                                fillna(bfill(ffill(Column(merged, "idx_trend"))), 1))
                    ELSE assign_scalar(merged, "idx_trend", 1)
    IN assign(trended, "mkt_vol", fillna(bfill(ffill(missing)), SCALE \div 5))

\* lines 93-95 of get_data
add_indicators(d, a) ==
    add_market_indicators(
        add_macro_indicators(add_fundamental_indicators_try(d, a.fin, a.info), a.pmi),
        a.index)

\* the Series enriched: one bar or more
EnrichedSeries == UNION { {Frame(c) : c \in [1..n -> Prices]} : n \in 1..MaxLen - 1 }

\* what the four upstream sources answer with
FinAnswers ==
    {Raised} \cup {Returned(t) : t \in {<<>>, << [report_date |-> 0, eps |-> 2, roe |-> 1500] >>,
                                        << [report_date |-> 2, eps |-> 2, roe |-> 1500] >>}}
InfoAnswers ==
    {Raised, Returned(<<>>), Returned(<< [total_shares |-> 3, dividend_yield |-> 200] >>)}
PmiAnswers ==
    {Raised} \cup {Returned(t) : t \in {<<>>, << [month |-> 1, pmi |-> 51 * SCALE] >>,
                                        << [month |-> 2, pmi |-> 49 * SCALE] >>}}
IndexAnswers ==
    {Raised, Returned(<<>>)}
    \cup UNION { {Returned([j \in 1..n |-> [date |-> j, close |-> c[j]]]) :
                     c \in [1..n -> Prices]} : n \in 1..MaxLen - 1 }

\* get_data(symbol, add_indicators=True), the price data fetched
AddIndicators ==
    /\ answers.pc = "idle"
    /\ \E d \in EnrichedSeries, f \in FinAnswers, n \in InfoAnswers,
          p \in PmiAnswers, x \in IndexAnswers :
          LET a == [pc |-> "returned", df |-> d, fin |-> f, info |-> n, pmi |-> p,
                    index |-> x]
          IN answers' = [pc |-> "returned", df |-> d, fin |-> f, info |-> n, pmi |-> p,
                         index |-> x, returned |-> add_indicators(d, a)]
    /\ UNCHANGED <<ctor, sweep, bt>>
    /\ UNCHANGED engineVars
    /\ UNCHANGED storeVars
    /\ UNCHANGED dataVars

InitIndicators == InitTrend

NextIndicators == AddIndicators

SpecIndicators == InitIndicators /\ [][NextIndicators]_vars

\* the enrichment columns the strategies read, those of the model
EnrichmentColumns ==
    {"pe", "roe", "total_mv", "dividend_yield", "pmi", "volatility", "mkt_vol",
     "idx_trend"}

\* C21: whichever enrichment requests raise or return nothing, the Series
\* that get_data returns has every enrichment column, with no missing
\* value on any bar
TotalColumnCoverage ==
    answers.pc = "returned" =>
        \A col \in EnrichmentColumns :
            /\ col \in columns(answers.returned)
            /\ \A i \in DOMAIN answers.returned : answers.returned[i][col] # NaN

\* C29: when the fundamental, macro and index requests all succeed and
\* return rows, the idx_trend of a bar whose date the index table has is
\* the trend flag of the index on that date
IndexTrendFromIndex ==
    (/\ answers.pc = "returned"
     /\ ~answers.fin.raised /\ ~answers.info.raised /\ ~answers.pmi.raised
     /\ ~answers.index.raised
     /\ answers.fin.table # <<>> /\ answers.info.table # <<>>
     /\ answers.pmi.table # <<>> /\ answers.index.table # <<>>) =>
        LET flags == index_table(answers.index.table)
        IN \A i \in DOMAIN answers.returned :
              \A j \in DOMAIN flags :
                 flags[j].dt = answers.returned[i].dt =>
                    answers.returned[i].idx_trend = flags[j].idx_trend

=============================================================================
